---- MODULE Spec2Model ----
\* A model of protosync: the closure engine (Sync, resolveLocalRoot,
\* resolveImports, recursiveResolve) and the resolver chain (Combine).
\*
\* Strings are sequences of tokens, so that suffix tests and path joins are
\* computed rather than assumed: "a.proto" is <<"a", ".proto">>.
EXTENDS Integers, Sequences, FiniteSets, TLC

VARIABLES
    sources,        \* Sync's variadic argument
    fs,             \* the filesystem: file name -> file
    chain,          \* what the resolver passed to Sync answers, per import path
    ioOk, ioFail,   \* the I/O operations known to succeed / to fail
    stack,          \* the call stack of the running Sync (bottom first)
    err,            \* the error value the last returning call handed back
    roots, imports, \* Sync's classification of the sources
    resolved,       \* ctx.resolved
    ret,            \* what Sync returned
    run,            \* how many times Sync has been invoked
    prev,           \* what the previous invocation returned
    resolveCalls,   \* history: calls of ctx.resolve per path, this invocation
    creates,        \* history: os.Create calls per path, this invocation
    copies,         \* history: io.Copy calls per path, this invocation
    cached,         \* history: paths recursiveResolve found already resolved
    shadowed,       \* history: imports passed over as local
    failed,         \* history: the first failure of this invocation
    fsStart,        \* history: the files that existed when Sync was invoked
    cResolvers,     \* Combine: the resolvers, as their answers for cPath
    cIdx,           \* Combine: the loop position (0: not called yet)
    cInvoked,       \* Combine: the resolvers invoked so far, in order
    cRet,           \* Combine: what the combined resolver returned
    rRepos,         \* Remote: the descriptors (repos)
    rPath,          \* Remote: the import path the resolver is called with
    rDirect,        \* Remote: githubFetcher is called on its own, as the tests do
    rPc,            \* Remote: where the call is
    rRepo,          \* Remote: the descriptor findRepoForImport returned (0: nil)
    rRepoURL,       \* Remote: fetchProto's repoURL
    rU,             \* Remote: the URL value the caller hands to the fetcher (*u)
    rReq,           \* Remote: the URL httpGet is called with
    rR, rErr,       \* Remote: fetchProto's r and err
    rRet,           \* Remote: what the resolver returned
    rResp,          \* history: the last answer of a web server
    rFetched,       \* history: what the fetcher returned
    rParsed,        \* history: the URL strings parsed
    rHttp,          \* history: the URLs requested over HTTP
    rClones,        \* history: the URLs cloner was called with
    rUsed,          \* history: the descriptors a URL was taken from
    jVersion,       \* ArtifactoryJAR: repository.Version ("": the latest)
    jCache,         \* the cache directory: version -> the file <artifact>-<version>.jar
    jTemps,         \* the cache directory: the temporary files, oldest first
    jZip, jPath,    \* ArtifactoryJAR: the closure's zipFile and jarPath
    jPc,            \* ArtifactoryJAR: where the call is
    jArg,           \* ArtifactoryJAR: the path the resolver is called with
    jRet,           \* ArtifactoryJAR: what the resolver returned
    jVer,           \* openJAR: version
    jResp,          \* openJAR: the response to the download request
    jCalls,         \* history: calls of the resolver
    jProbes,        \* history: metadata requests of this instance
    jDownloads,     \* history: download requests of this instance
    jOpens,         \* history: zip.OpenReader calls of this instance
    jSteps,         \* history: the requests and opens of this call, in order
    jHit,           \* history: os.Stat found the file in this call
    mStream,        \* syncJARMetadata: the tokens of the document the server answers with
    mPos,           \* syncJARMetadata: the tokens the decoder has read
    mOpen,          \* syncJARMetadata: the decoder's stack of open elements
    mData,          \* syncJARMetadata: the character data DecodeElement has collected
    mPc,            \* syncJARMetadata: where the call is
    mRet,           \* syncJARMetadata: what it returned
    gDest,          \* the clone cache: the directory protosync/<repo>-<hash>
    gTmp,           \* the clone cache: each process's temporary directory
    gPc,            \* cloner: where each process is
    gErr,           \* cloner: the error each process returned
    gSaw,           \* history: what each process's os.Stat of .git found
    gStart,         \* history: the directory before any process ran
    lIncludes,      \* Local: the include patterns, in declared order
    lFs,            \* Local: what os.Open of <root>/<path> meets, for every directory
    lPc,            \* Local: where the call is
    lI,             \* Local: the index of the pattern in hand
    lRoots,         \* Local: what filepath.Glob returned for it
    lJ,             \* Local: the index of the root in hand
    lRet,           \* Local: what the call returned
    lOpens          \* history: the paths os.Open was called with, in order

syncVars == <<sources, fs, chain, ioOk, ioFail, stack, err, roots, imports,
              resolved, ret, run, prev, resolveCalls, creates, copies, cached,
              shadowed, failed, fsStart>>
combineVars == <<cResolvers, cIdx, cInvoked, cRet>>
remoteVars == <<rRepos, rPath, rDirect, rPc, rRepo, rRepoURL, rU, rReq, rResp, rR,
                rErr, rRet, rFetched, rParsed, rHttp, rClones, rUsed>>
jarVars == <<jVersion, jCache, jTemps, jZip, jPath, jPc, jArg, jRet, jCalls, jProbes,
             jDownloads, jOpens, jSteps, jHit, jResp, jVer>>
metaVars == <<mStream, mPos, mOpen, mData, mPc, mRet>>
cloneVars == <<gDest, gTmp, gPc, gErr, gSaw, gStart>>
localVars == <<lIncludes, lFs, lPc, lI, lRoots, lJ, lRet, lOpens>>
\* What the steps of Sync, of Combine, of Remote and of ArtifactoryJAR leave alone.
nonSyncVars == <<combineVars, remoteVars, jarVars, metaVars, cloneVars, localVars>>
nonCombineVars == <<syncVars, remoteVars, jarVars, metaVars, cloneVars, localVars>>
nonRemoteVars == <<syncVars, combineVars, jarVars, metaVars, cloneVars, localVars>>
nonJarVars == <<syncVars, combineVars, remoteVars, metaVars, cloneVars, localVars>>
nonMetaVars == <<syncVars, combineVars, remoteVars, jarVars, cloneVars, localVars>>
nonCloneVars == <<syncVars, combineVars, remoteVars, jarVars, metaVars, localVars>>
nonLocalVars == <<syncVars, combineVars, remoteVars, jarVars, metaVars, cloneVars>>
vars == <<syncVars, combineVars, remoteVars, jarVars, metaVars, cloneVars, localVars>>

-----------------------------------------------------------------------------
\* Bounds of the model.

MaxSources == 2     \* sources handed to Sync
MaxImports == 2     \* import statements per .proto file
MaxLocalFiles == 1  \* .proto files under the include directory
MaxRuns == 2        \* invocations of Sync in one behaviour
MaxDepth == 8       \* call stack frames (the Go stack is finite as well)
MaxResolvers == 3   \* resolvers handed to Combine
MaxRepos == 2       \* descriptors handed to Remote
MaxCalls == 3       \* calls of the resolvers of ArtifactoryJAR in one behaviour
MaxTokens == 6      \* tokens of a maven-metadata.xml
NumProcs == 2       \* processes that run the clone fallback at once
MaxIncludes == 2    \* include patterns handed to Local

-----------------------------------------------------------------------------
\* Strings and paths.

SeqsUpTo(S, n) == UNION {[1..k -> S] : k \in 0..n}

HasSuffix(s, suffix) ==
    /\ Len(s) >= Len(suffix)
    /\ SubSeq(s, Len(s) - Len(suffix) + 1, Len(s)) = suffix

Join(dir, p) == dir \o <<"/">> \o p

ImportPaths == {<<"a", ".proto">>, <<"b", ".proto">>}
Inc == <<"inc">>
Dest == <<"out">>
Dirs == {Inc, Dest}
\* The names a directory can hold, in the lexical order filepath.Walk visits.
DirNames == <<<<"a", ".proto">>, <<"b", ".proto">>, <<"l", ".proto">>, <<"n", ".txt">>>>
Notes == <<"n", ".txt">>
LocalNames == {DirNames[i] : i \in 1..Len(DirNames)}
FileNames == {Join(d, n) : d \in Dirs, n \in LocalNames}

-----------------------------------------------------------------------------
\* File contents and the parser.

PkgLine == <<"package", "svc">>
MsgLine == <<"message", "M">>
BadLine == <<"garbage">>
ImportLine(p) == <<"import">> \o p

ProtoText(imps) == <<PkgLine>> \o [i \in 1..Len(imps) |-> ImportLine(imps[i])] \o <<MsgLine>>
Contents == {ProtoText(s) : s \in SeqsUpTo(ImportPaths, MaxImports)} \cup {<<BadLine>>}

EntryOf(line, i) ==
    [Package |-> IF Head(line) = "package" THEN Tail(line) ELSE <<>>,
     Import  |-> IF Head(line) = "import" THEN Tail(line) ELSE <<>>,
     Pos     |-> <<"line", ToString(i)>>]

Parse(bytes) ==
    IF \E i \in 1..Len(bytes) : Head(bytes[i]) \notin {"package", "import", "message"}
    THEN [ok |-> FALSE, Entries |-> <<>>]
    ELSE [ok |-> TRUE, Entries |-> [i \in 1..Len(bytes) |-> EntryOf(bytes[i], i)]]

Absent == [st |-> "absent", bytes |-> <<>>]
Unread == [st |-> "unread", bytes |-> <<>>]
File(bytes) == [st |-> "file", bytes |-> bytes]
Exists(name) == name \in FileNames /\ fs[name].st # "absent"

-----------------------------------------------------------------------------
\* Errors.

Nil == [cause |-> "nil", imp |-> <<>>, ctx |-> <<>>]
Errorf(cause, imp) == [cause |-> cause, imp |-> imp, ctx |-> <<>>]
Wrap(e, msg) == [e EXCEPT !.ctx = <<msg>> \o @]
WithStack(e) == e

\* What a Resolver returns: (r, err), r a NamedReadCloser (with the bytes it
\* delivers) or nil. (nil, nil) is not-found.
NilHandle == [isNil |-> TRUE, bytes |-> <<>>]
Handle(bytes) == [isNil |-> FALSE, bytes |-> bytes]
Found(bytes) == [r |-> Handle(bytes), err |-> Nil]
NotFound == [r |-> NilHandle, err |-> Nil]
Failure(e) == [r |-> NilHandle, err |-> e]
ResolverError == Errorf("resolver error", <<>>)
OtherResolverError == Errorf("other resolver error", <<>>)
\* A resolver that has not been asked yet.
Unknown == [r |-> NilHandle, err |-> Errorf("not asked", <<>>)]
Outcomes == {Found(b) : b \in Contents} \cup {NotFound, Failure(ResolverError)}

-----------------------------------------------------------------------------
\* The call stack.

Frame(fn, at, arg, list, i) == [fn |-> fn, at |-> at, arg |-> arg, list |-> list, i |-> i]
Top == stack[Len(stack)]
Running(fn, at) == stack # <<>> /\ Top.fn = fn /\ Top.at = at
Replaced(f) == [stack EXCEPT ![Len(stack)] = f]
Popped == SubSeq(stack, 1, Len(stack) - 1)
Called(caller, callee) == Append(Replaced(caller), callee)

NoRet == [st |-> "none", synced |-> <<>>, syncedNil |-> TRUE, err |-> Nil]
Returned(list, isNil, e) == [st |-> "returned", synced |-> list, syncedNil |-> isNil, err |-> e]

\* An I/O operation at a site succeeds or fails; a site keeps its outcome.
Allowed(site, ok) == (site \in ioOk => ok) /\ (site \in ioFail => ~ok)
Recorded(site, ok) ==
    /\ ioOk' = IF ok THEN ioOk \cup {site} ELSE ioOk
    /\ ioFail' = IF ok THEN ioFail ELSE ioFail \cup {site}

FirstFailure(e) == IF failed = Nil THEN e ELSE failed

Zero == [p \in ImportPaths |-> 0]
Bump(f, p) == [f EXCEPT ![p] = @ + 1]

-----------------------------------------------------------------------------
\* Sync.

\* A Sync that takes every source for a root.
IsImportNever(src) == FALSE
IsImport(src) == HasSuffix(src, <<".proto">>)
RECURSIVE Select(_, _)
Select(s, keepImports) ==
    IF s = <<>> THEN <<>>
    ELSE IF IsImport(Head(s)) = keepImports
         THEN <<Head(s)>> \o Select(Tail(s), keepImports)
         ELSE Select(Tail(s), keepImports)

SyncFrame(at, i) == Frame("Sync", at, <<>>, <<>>, i)
ResolveFrame(imp) == Frame("recursiveResolve", "resolve", imp, <<>>, 0)
RootFrame(root) == Frame("resolveLocalRoot", "lstat", root, <<>>, 1)
ImportsFrame(file) == Frame("resolveImports", "parse", file, <<>>, 1)

\* A caller that does not look at the error it is handed.
FailsNever(e) == FALSE
Fails(e) == e # Nil

\* Sync is invoked: the sources are classified and the context is created.
\* The caller invokes it again, with the same arguments, after a success.
SyncCall ==
    /\ stack = <<>>
    /\ run < MaxRuns
    /\ run > 0 => ret.err = Nil
    /\ run' = run + 1
    /\ prev' = ret
    /\ ret' = NoRet
    /\ imports' = Select(sources, TRUE)
    /\ roots' = Select(sources, FALSE)
    /\ resolved' = {}
    /\ stack' = <<SyncFrame("imports", 1)>>
    /\ err' = Nil
    /\ resolveCalls' = Zero
    /\ creates' = Zero
    /\ copies' = Zero
    /\ cached' = {}
    /\ shadowed' = {}
    /\ failed' = Nil
    /\ fsStart' = {n \in FileNames : fs[n].st # "absent"}
    /\ UNCHANGED <<sources, fs, chain, ioOk, ioFail, nonSyncVars>>

\* for _, src := range imports { err := recursiveResolve(ctx, src); ... }
SyncImports ==
    /\ Running("Sync", "imports")
    /\ IF Fails(err)
       THEN /\ ret' = Returned(<<>>, TRUE, err)
            /\ stack' = <<>>
            /\ err' = Nil
       ELSE /\ ret' = ret
            /\ err' = Nil
            /\ IF Top.i <= Len(imports)
               THEN /\ Len(stack) < MaxDepth
                    /\ stack' = Called(SyncFrame("imports", Top.i + 1), ResolveFrame(imports[Top.i]))
               ELSE stack' = Replaced(SyncFrame("roots", 1))
    /\ UNCHANGED <<sources, fs, chain, ioOk, ioFail, roots, imports, resolved, run, prev,
                   resolveCalls, creates, copies, cached, shadowed, failed, fsStart, nonSyncVars>>

Injective(s) == \A i, j \in DOMAIN s : s[i] = s[j] => i = j
Orders(S) == {s \in [1..Cardinality(S) -> S] : Injective(s)}

\* for _, root := range roots { err := resolveLocalRoot(ctx, root); ... }
\* and, after the loop, the resolved map is listed (in Go's map order: any order).
SyncRoots ==
    /\ Running("Sync", "roots")
    /\ IF Fails(err)
       THEN /\ ret' = Returned(<<>>, TRUE, err)
            /\ stack' = <<>>
            /\ err' = Nil
       ELSE IF Top.i <= Len(roots)
            THEN /\ Len(stack) < MaxDepth
                 /\ stack' = Called(SyncFrame("roots", Top.i + 1), RootFrame(roots[Top.i]))
                 /\ UNCHANGED <<ret, err>>
            ELSE /\ \E synced \in Orders(resolved) : ret' = Returned(synced, FALSE, Nil)
                 /\ stack' = <<>>
                 /\ err' = Nil
    /\ UNCHANGED <<sources, fs, chain, ioOk, ioFail, roots, imports, resolved, run, prev,
                   resolveCalls, creates, copies, cached, shadowed, failed, fsStart, nonSyncVars>>

-----------------------------------------------------------------------------
\* recursiveResolve.

\* A recursiveResolve that lost its check of the resolved map.
AlreadyResolvedNever(imp) == FALSE
\* A recursiveResolve that takes a file under the destination for fetched.
AlreadyResolvedOrWritten(imp) == imp \in resolved \/ Exists(Join(Dest, imp))
AlreadyResolved(imp) == imp \in resolved
\* A recursiveResolve that never records what it fetched.
MarkResolvedForgotten(imp) == resolved
MarkResolved(imp) == resolved \cup {imp}
DestFile(imp) == Join(Dest, imp)
\* A recursiveResolve that passes over an import no resolver has.
NotFoundIgnored(imp) == Nil
NotFoundError(imp) == Errorf("could not resolve", imp)
\* An io.Copy that loses the end of the stream.
CopiedShort(bytes) == SubSeq(bytes, 1, Len(bytes) - 1)
Copied(bytes) == bytes

\* if ctx.resolved[imp] { return nil }; r, err := ctx.resolve(imp); ...;
\* ctx.resolved[imp] = true
RRResolve ==
    /\ Running("recursiveResolve", "resolve")
    /\ LET imp == Top.arg IN
       IF AlreadyResolved(imp)
       THEN /\ stack' = Popped
            /\ err' = Nil
            /\ cached' = cached \cup {imp}
            /\ UNCHANGED <<chain, resolved, resolveCalls, failed>>
       ELSE \E o \in Outcomes :
            /\ chain[imp] \in {Unknown, o}
            /\ cached' = cached
            /\ chain' = [chain EXCEPT ![imp] = o]
            /\ resolveCalls' = Bump(resolveCalls, imp)
            /\ IF o.err # Nil
               THEN /\ stack' = Popped
                    /\ err' = Wrap(o.err, imp)
                    /\ failed' = FirstFailure(o.err)
                    /\ resolved' = resolved
               ELSE IF o.r = NilHandle
               THEN /\ stack' = Popped
                    /\ err' = NotFoundError(imp)
                    /\ failed' = FirstFailure(NotFoundError(imp))
                    /\ resolved' = resolved
               ELSE /\ resolved' = MarkResolved(imp)
                    /\ stack' = Replaced(Frame("recursiveResolve", "mkdir", imp, o.r.bytes, 0))
                    /\ err' = Nil
                    /\ failed' = failed
    /\ UNCHANGED <<sources, fs, ioOk, ioFail, roots, imports, ret, run, prev,
                   creates, copies, shadowed, fsStart, nonSyncVars>>

\* err = os.MkdirAll(filepath.Dir(destFile), os.ModePerm)
RRMkdirAll ==
    /\ Running("recursiveResolve", "mkdir")
    /\ \E ok \in BOOLEAN :
       LET site == <<"mkdir", Top.arg>> IN
       /\ Allowed(site, ok)
       /\ Recorded(site, ok)
       /\ IF ok
          THEN /\ stack' = Replaced([Top EXCEPT !.at = "create"])
               /\ UNCHANGED <<err, failed>>
          ELSE /\ stack' = Popped
               /\ err' = WithStack(Errorf("mkdir", Top.arg))
               /\ failed' = FirstFailure(Errorf("mkdir", Top.arg))
    /\ UNCHANGED <<sources, fs, chain, roots, imports, resolved, ret, run, prev,
                   resolveCalls, creates, copies, cached, shadowed, fsStart, nonSyncVars>>

\* w, err := os.Create(destFile): the file exists and is empty from here on.
RRCreate ==
    /\ Running("recursiveResolve", "create")
    /\ \E ok \in BOOLEAN :
       LET site == <<"create", Top.arg>> IN
       /\ Allowed(site, ok)
       /\ Recorded(site, ok)
       /\ creates' = Bump(creates, Top.arg)
       /\ IF ok
          THEN /\ stack' = Replaced([Top EXCEPT !.at = "copy"])
               /\ fs' = [fs EXCEPT ![DestFile(Top.arg)] = File(<<>>)]
               /\ UNCHANGED <<err, failed>>
          ELSE /\ stack' = Popped
               /\ err' = WithStack(Errorf("create", Top.arg))
               /\ failed' = FirstFailure(Errorf("create", Top.arg))
               /\ fs' = fs
    /\ UNCHANGED <<sources, chain, roots, imports, resolved, ret, run, prev,
                   resolveCalls, copies, cached, shadowed, fsStart, nonSyncVars>>

\* _, err = io.Copy(w, r): a failing copy leaves what it had written so far.
RRCopy ==
    /\ Running("recursiveResolve", "copy")
    /\ \E ok \in BOOLEAN :
       LET site == <<"copy", Top.arg>>
           bytes == Top.list IN
       /\ Allowed(site, ok)
       /\ Recorded(site, ok)
       /\ copies' = Bump(copies, Top.arg)
       /\ IF ok
          THEN /\ stack' = Replaced([Top EXCEPT !.at = "open"])
               /\ fs' = [fs EXCEPT ![DestFile(Top.arg)] = File(Copied(bytes))]
               /\ UNCHANGED <<err, failed>>
          ELSE /\ stack' = Popped
               /\ err' = WithStack(Errorf("copy", Top.arg))
               /\ failed' = FirstFailure(Errorf("copy", Top.arg))
               /\ \E k \in 0..Len(bytes) :
                  /\ k < Len(bytes) \/ bytes = <<>>
                  /\ fs' = [fs EXCEPT ![DestFile(Top.arg)] = File(SubSeq(bytes, 1, k))]
    /\ UNCHANGED <<sources, chain, roots, imports, resolved, ret, run, prev,
                   resolveCalls, creates, cached, shadowed, fsStart, nonSyncVars>>

\* r, err = os.Open(destFile); ...; return resolveImports(ctx, r)
\* (a tail call: the frame becomes that of resolveImports)
RROpen ==
    /\ Running("recursiveResolve", "open")
    /\ \E ok \in BOOLEAN :
       LET site == <<"open", DestFile(Top.arg)>> IN
       /\ Allowed(site, ok)
       /\ Recorded(site, ok)
       /\ IF ok
          THEN /\ stack' = Replaced(ImportsFrame(DestFile(Top.arg)))
               /\ UNCHANGED <<err, failed>>
          ELSE /\ stack' = Popped
               /\ err' = WithStack(Errorf("open", Top.arg))
               /\ failed' = FirstFailure(Errorf("open", Top.arg))
    /\ UNCHANGED <<sources, fs, chain, roots, imports, resolved, ret, run, prev,
                   resolveCalls, creates, copies, cached, shadowed, fsStart, nonSyncVars>>

-----------------------------------------------------------------------------
\* resolveImports.

\* for _, root := range ctx.roots { if _, err := os.Stat(filepath.Join(root, imp)); err == nil ... }
\* A resolveImports without the check for local files.
IsLocalNever(imp) == FALSE
IsLocal(imp) == \E i \in 1..Len(roots) : Exists(Join(roots[i], imp))

\* proto, err := parser.Parse(r). A local file's text is fixed when it is first read.
RIParse ==
    /\ Running("resolveImports", "parse")
    /\ \E bytes \in Contents \cup {fs[Top.arg].bytes} :
       /\ fs[Top.arg].st = "unread" \/ bytes = fs[Top.arg].bytes
       /\ fs[Top.arg].st = "unread" => bytes \in Contents
       /\ fs' = [fs EXCEPT ![Top.arg] = File(bytes)]
       /\ LET proto == Parse(bytes) IN
          IF proto.ok
          THEN /\ stack' = Replaced(Frame("resolveImports", "loop", Top.arg, proto.Entries, 1))
               /\ UNCHANGED <<err, failed>>
          ELSE /\ stack' = Popped
               /\ err' = WithStack(Errorf("parse", Top.arg))
               /\ failed' = FirstFailure(Errorf("parse", Top.arg))
    /\ UNCHANGED <<sources, chain, ioOk, ioFail, roots, imports, resolved, ret, run, prev,
                   resolveCalls, creates, copies, cached, shadowed, fsStart, nonSyncVars>>

\* for _, stmt := range proto.Entries { ...; err := recursiveResolve(ctx, stmt.Import); ... }
RILoop ==
    /\ Running("resolveImports", "loop")
    /\ IF Fails(err)
       THEN /\ stack' = Popped
            /\ err' = Wrap(err, Top.list[Top.i - 1].Pos)
            /\ shadowed' = shadowed
       ELSE /\ err' = Nil
            /\ IF Top.i > Len(Top.list)
               THEN /\ stack' = Popped
                    /\ shadowed' = shadowed
               ELSE LET stmt == Top.list[Top.i]
                        next == [Top EXCEPT !.i = @ + 1] IN
                    IF stmt.Package # <<>> \/ stmt.Import = <<>>
                    THEN /\ stack' = Replaced(next)
                         /\ shadowed' = shadowed
                    ELSE IF IsLocal(stmt.Import)
                    THEN /\ stack' = Replaced(next)
                         /\ shadowed' = shadowed \cup {stmt.Import}
                    ELSE /\ Len(stack) < MaxDepth
                         /\ stack' = Called(next, ResolveFrame(stmt.Import))
                         /\ shadowed' = shadowed
    /\ UNCHANGED <<sources, fs, chain, ioOk, ioFail, roots, imports, resolved, ret, run, prev,
                   resolveCalls, creates, copies, cached, failed, fsStart, nonSyncVars>>

-----------------------------------------------------------------------------
\* resolveLocalRoot.

RECURSIVE Listing(_, _)
Listing(root, i) ==
    IF i > Len(DirNames) THEN <<>>
    ELSE IF Exists(Join(root, DirNames[i]))
         THEN <<DirNames[i]>> \o Listing(root, i + 1)
         ELSE Listing(root, i + 1)

\* filepath.Walk(root, ...): the root is examined and its names are read, sorted.
RLRLstat ==
    /\ Running("resolveLocalRoot", "lstat")
    /\ \E ok \in BOOLEAN :
       LET site == <<"lstat", Top.arg>> IN
       /\ Allowed(site, ok)
       /\ Recorded(site, ok)
       /\ IF ok
          THEN /\ stack' = Replaced(Frame("resolveLocalRoot", "walk", Top.arg, Listing(Top.arg, 1), 1))
               /\ UNCHANGED <<err, failed>>
          ELSE /\ stack' = Popped
               /\ err' = WithStack(Errorf("lstat", Top.arg))
               /\ failed' = FirstFailure(Errorf("lstat", Top.arg))
    /\ UNCHANGED <<sources, fs, chain, roots, imports, resolved, ret, run, prev,
                   resolveCalls, creates, copies, cached, shadowed, fsStart, nonSyncVars>>

\* The walk function, once per name: files other than .proto are passed over,
\* a .proto file is opened and handed to resolveImports.
RLRWalk ==
    /\ Running("resolveLocalRoot", "walk")
    /\ IF Fails(err)
       THEN /\ stack' = Popped
            /\ err' = WithStack(err)
            /\ UNCHANGED <<ioOk, ioFail, failed>>
       ELSE IF Top.i > Len(Top.list)
       THEN /\ stack' = Popped
            /\ err' = Nil
            /\ UNCHANGED <<ioOk, ioFail, failed>>
       ELSE LET path == Join(Top.arg, Top.list[Top.i])
                next == [Top EXCEPT !.i = @ + 1] IN
            IF ~HasSuffix(path, <<".proto">>)
            THEN /\ stack' = Replaced(next)
                 /\ err' = Nil
                 /\ UNCHANGED <<ioOk, ioFail, failed>>
            ELSE \E ok \in BOOLEAN :
                 /\ Allowed(<<"open", path>>, ok)
                 /\ Recorded(<<"open", path>>, ok)
                 /\ IF ok
                    THEN /\ Len(stack) < MaxDepth
                         /\ stack' = Called(next, ImportsFrame(path))
                         /\ err' = Nil
                         /\ failed' = failed
                    ELSE /\ stack' = Popped
                         /\ err' = WithStack(Errorf("open", Top.list[Top.i]))
                         /\ failed' = FirstFailure(Errorf("open", Top.list[Top.i]))
    /\ UNCHANGED <<sources, fs, chain, roots, imports, resolved, ret, run, prev,
                   resolveCalls, creates, copies, cached, shadowed, fsStart, nonSyncVars>>

-----------------------------------------------------------------------------
\* Combine: the resolvers are tried in turn. cResolvers holds what each of them
\* answers for the path the combined resolver is called with.

NotReturned == [st |-> "none", r |-> NilHandle, err |-> Nil]
Result(r, e) == [st |-> "returned", r |-> r, err |-> e]

\* A chain that takes a resolver's error for not-found.
ReturnsErrorNever(o) == FALSE
ReturnsError(o) == o.err # Nil
\* A chain that passes over a resolver's handle.
ReturnsHandleNever(o) == FALSE
ReturnsHandle(o) == o.r # NilHandle

\* The function Combine returned is called.
CombineCall ==
    /\ cIdx = 0
    /\ cIdx' = 1
    /\ UNCHANGED <<cResolvers, cInvoked, cRet, nonCombineVars>>

\* for _, resolve := range resolvers { r, err := resolve(path); ... }; return nil, nil
CombineLoop ==
    /\ cIdx > 0
    /\ cRet = NotReturned
    /\ IF cIdx <= Len(cResolvers)
       THEN LET o == cResolvers[cIdx] IN
            /\ cInvoked' = Append(cInvoked, cIdx)
            /\ IF ReturnsError(o)
               THEN cRet' = Result(NilHandle, o.err) /\ cIdx' = cIdx
               ELSE IF ReturnsHandle(o)
               THEN cRet' = Result(o.r, Nil) /\ cIdx' = cIdx
               ELSE cRet' = cRet /\ cIdx' = cIdx + 1
       ELSE /\ cRet' = Result(NilHandle, Nil)
            /\ UNCHANGED <<cInvoked, cIdx>>
    /\ UNCHANGED <<cResolvers, nonCombineVars>>

CombineOutcomes ==
    {Found(<<PkgLine>>), Found(<<MsgLine>>), NotFound,
     Failure(ResolverError), Failure(OtherResolverError)}

CombineInit ==
    /\ cResolvers \in SeqsUpTo(CombineOutcomes, MaxResolvers)
    /\ cIdx = 0
    /\ cInvoked = <<>>
    /\ cRet = NotReturned

-----------------------------------------------------------------------------
\* URLs. A URL string is a sequence of tokens:
\* "ssh://git@github.com/org/repo.git" is
\* <<"ssh", "://", "git", "@", "github.com", "/", "org", "/", "repo", ".git">>.

SshURL == <<"ssh", "://", "git", "@", "github.com", "/", "org", "/", "repo", ".git">>
HttpsURL == <<"https", "://", "github.com", "/", "org", "/", "repo", ".git">>
ShortURL == <<"git", "@", "github.com", ":", "org", "/", "repo", ".git">>
BitbucketURL == <<"ssh", "://", "git", "@", "bb.corp", "/", "scm", "/", "proj", "/", "repo", ".git">>
OtherHostURL == <<"https", "://", "gitlab.com", "/", "org", "/", "repo", ".git">>
DeepURL == <<"https", "://", "github.com", "/", "org", "/", "team", "/", "repo", ".git">>
RepoURLs == {SshURL, HttpsURL, ShortURL, BitbucketURL, OtherHostURL, DeepURL}
\* The URLs of the tests.
OtherShortURL == <<"git-1234", "@", "example.org", ":", "cashapp", "/", "protosync", ".git">>
TestURLs == {SshURL, ShortURL, OtherShortURL, OtherHostURL}

\* The position of the first token t in s (0: none).
RECURSIVE Index(_, _)
Index(s, t) ==
    IF s = <<>> THEN 0
    ELSE IF Head(s) = t THEN 1
    ELSE LET i == Index(Tail(s), t) IN IF i = 0 THEN 0 ELSE i + 1

Before(s, t) == IF Index(s, t) = 0 THEN s ELSE SubSeq(s, 1, Index(s, t) - 1)
From(s, t) == IF Index(s, t) = 0 THEN <<>> ELSE SubSeq(s, Index(s, t), Len(s))
After(s, t) == IF Index(s, t) = 0 THEN <<>> ELSE SubSeq(s, Index(s, t) + 1, Len(s))

\* A url.URL value; User, Host and Path are strings (token sequences).
URL(scheme, user, host, path) == [Scheme |-> scheme, User |-> user, Host |-> host, Path |-> path]
NoURL == URL("", <<>>, <<>>, <<>>)
ParseError(s) == [ok |-> FALSE, u |-> NoURL, err |-> Errorf("parse", s)]
Parsed(u) == [ok |-> TRUE, u |-> u, err |-> Nil]

\* scheme://[user@]host[/path]
Authority(rest) == Before(rest, "/")
StandardURL(s) ==
    LET rest == SubSeq(s, 3, Len(s))
        auth == Authority(rest) IN
    URL(s[1],
        IF Index(auth, "@") = 0 THEN <<>> ELSE Before(auth, "@"),
        IF Index(auth, "@") = 0 THEN auth ELSE After(auth, "@"),
        From(rest, "/"))

\* url.Parse: a string without scheme is a path, and its first segment may
\* not hold a colon.
URLParse(s) ==
    IF Len(s) >= 2 /\ s[2] = "://" THEN Parsed(StandardURL(s))
    ELSE IF Index(Before(s, "/"), ":") # 0 THEN ParseError(s)
    ELSE Parsed(URL("", <<>>, <<>>, s))

\* A ParseURL that knows the standard forms only: url.Parse.
ParseURLStandardOnly(s) == URLParse(s)

\* Repo.ParseURL: the standard syntax, or the shorthand user@host:path.
ParseURL(s) ==
    IF Len(s) >= 2 /\ s[2] = "://" THEN Parsed(StandardURL(s))
    ELSE IF Index(s, "@") # 0 /\ Index(After(s, "@"), ":") # 0
    THEN Parsed(URL("ssh", Before(s, "@"), Before(After(s, "@"), ":"),
                    After(After(s, "@"), ":")))
    ELSE ParseError(s)

\* URL.String()
URLString(u) ==
    (IF u.Scheme = "" THEN <<>> ELSE <<u.Scheme, "://">>)
    \o (IF u.User = <<>> THEN <<>> ELSE u.User \o <<"@">>)
    \o u.Host
    \o (IF u.Path # <<>> /\ Head(u.Path) # "/" /\ u.Host # <<>> THEN <<"/">> ELSE <<>>)
    \o u.Path

TrimSuffix(s, suffix) == IF HasSuffix(s, suffix) THEN SubSeq(s, 1, Len(s) - Len(suffix)) ELSE s
HasPrefix(s, prefix) == Len(s) >= Len(prefix) /\ SubSeq(s, 1, Len(prefix)) = prefix

\* strings.Split(s, "/")
RECURSIVE Split(_)
Split(s) ==
    IF Index(s, "/") = 0 THEN <<s>>
    ELSE <<Before(s, "/")>> \o Split(After(s, "/"))

\* path.Join of two elements: empty elements are dropped.
PathJoin(a, b) == IF a = <<>> THEN b ELSE IF b = <<>> THEN a ELSE a \o <<"/">> \o b

-----------------------------------------------------------------------------
\* Remote: descriptors and their selection.

Repo(url, root, prefix, protos, commit) ==
    [URL |-> url, Root |-> root, Prefix |-> prefix, Protos |-> protos, CommitHash |-> commit]
Commit(r) == IF r.CommitHash = "" THEN "master" ELSE r.CommitHash

RemotePaths == {<<"google", "/", "a", ".proto">>, <<"x", ".proto">>}
\* config.BitbucketServers: a self-hosted server, and github.com listed as one.
BitbucketServers == <<<<"bb.corp">>, <<"github.com">>>>

\* A match that takes the empty prefix for a prefix of every path.
MatchesEmptyPrefix(r, path) ==
    \/ HasPrefix(path, r.Prefix)
    \/ \E i \in 1..Len(r.Protos) : r.Protos[i] = path
\* The match of a descriptor against path: by prefix, when it has one, or by
\* its list of files.
Matches(r, path) ==
    \/ r.Prefix # <<>> /\ HasPrefix(path, r.Prefix)
    \/ \E i \in 1..Len(r.Protos) : r.Protos[i] = path

\* A selection that keeps looking and returns the last match.
RECURSIVE findRepoLast(_, _, _)
findRepoLast(repos, path, i) ==
    IF i < 1 THEN 0
    ELSE IF Matches(repos[i], path) THEN i
    ELSE findRepoLast(repos, path, i - 1)
RECURSIVE findRepoFrom(_, _, _)
findRepoFrom(repos, path, i) ==
    IF i > Len(repos) THEN 0
    ELSE IF Matches(repos[i], path) THEN i
    ELSE findRepoFrom(repos, path, i + 1)
findRepoForImportLast(repos, path) == findRepoLast(repos, path, Len(repos))
findRepoForImport(repos, path) == findRepoFrom(repos, path, 1)

RootOf(url) == IF url = BitbucketURL THEN <<"protos">> ELSE <<>>
CommitOf(url) == IF url = HttpsURL THEN "abc" ELSE ""
Descriptors ==
    {Repo(u, RootOf(u), <<"google">>, <<>>, CommitOf(u)) : u \in RepoURLs}
    \cup {Repo(u, RootOf(u), <<>>, <<<<"x", ".proto">>>>, CommitOf(u)) : u \in RepoURLs}
    \cup {Repo(u, RootOf(u), <<>>, <<>>, CommitOf(u)) : u \in RepoURLs}

\* The call the tests make: githubFetcher(u, "nonexistingcontent", "").
NonExisting == <<"nonexistingcontent">>
TestRepo(url) == Repo(url, <<>>, <<>>, <<>>, "")

-----------------------------------------------------------------------------
\* Remote: fetchProto and the transports.

errNotFound == Errorf("not found", <<>>)
\* errors.Is(err, errNotFound); a fetchProto that falls back on any error.
IsNotFoundOrAnyError(e) == e # Nil
IsNotFound(e) == e.cause = errNotFound.cause

\* err.Error(): the messages wrapped around the cause, then the cause.
RECURSIVE Flatten(_)
Flatten(ss) == IF ss = <<>> THEN <<>> ELSE Head(ss) \o Flatten(Tail(ss))
ErrorText(e) == Flatten(e.ctx) \o <<e.cause>> \o e.imp

NamedHandle(name, bytes) == [isNil |-> FALSE, bytes |-> bytes, name |-> name]

theRepo == rRepos[rRepo]
relPath == IF rDirect THEN rPath ELSE PathJoin(theRepo.Root, rPath)
commit == IF rDirect THEN "" ELSE Commit(theRepo)

\* A chooseFetcher that looks at the configured servers first.
chooseFetcherServersFirst(repoURL) ==
    IF \E i \in 1..Len(BitbucketServers) : repoURL.Host = BitbucketServers[i]
    THEN "bitbucket"
    ELSE IF repoURL.Host = <<"github.com">> THEN "github"
    ELSE "unsupported"
chooseFetcher(repoURL) ==
    IF repoURL.Host = <<"github.com">> THEN "github"
    ELSE IF \E i \in 1..Len(BitbucketServers) : repoURL.Host = BitbucketServers[i]
    THEN "bitbucket"
    ELSE "unsupported"

\* The answers of a web server, and what httpGet makes of them.
ProtoBody == <<"syntax", "proto3">>
Responses ==
    [status : {199, 200, 299, 300, 404},
     ctype : {<<"text/plain">>, <<"text/html", "; charset=utf-8">>},
     body : {ProtoBody, <<"no such page">>}]
\* An httpGet that goes by the status alone.
httpGetStatusOnly(srcURL, resp) ==
    IF resp.status < 200 \/ resp.status > 299
    THEN Failure(Wrap(errNotFound, resp.body))
    ELSE [r |-> NamedHandle(srcURL, resp.body), err |-> Nil]
httpGet(srcURL, resp) ==
    IF resp.status < 200 \/ resp.status > 299
    THEN Failure(Wrap(errNotFound, resp.body))
    ELSE IF HasPrefix(resp.ctype, <<"text/html">>)
    THEN Failure(WithStack(errNotFound))
    ELSE [r |-> NamedHandle(srcURL, resp.body), err |-> Nil]
NoResponse == [status |-> 0, ctype |-> <<>>, body |-> <<>>]

\* err = errors.Wrap(fetchErr, err.Error()); a fetchProto that reports the
\* clone's failure alone.
FallbackErrorCloneOnly(fetchErr, cloneErr) == cloneErr
FallbackError(fetchErr, cloneErr) == Wrap(fetchErr, ErrorText(cloneErr))

\* u.Scheme = "https": githubFetcher writes through the pointer it was handed.
SchemeRewritten(u) == [u EXCEPT !.Scheme = "https"]
RawURL(user, project, rev, src) ==
    <<"https", "://", "raw.githubusercontent.com", "/">> \o user \o <<"/">> \o project
        \o <<"/", rev, "/">> \o src

\* Remote(config, repos)(path): repo := findRepoForImport(repos, path)
RemoteCall ==
    /\ rPc = "idle" /\ ~rDirect
    /\ rRepo' = findRepoForImport(rRepos, rPath)
    /\ IF rRepo' = 0
       THEN rPc' = "done" /\ rRet' = Result(NilHandle, Nil)
       ELSE rPc' = "parse" /\ rRet' = rRet
    /\ UNCHANGED <<rRepos, rPath, rDirect, rRepoURL, rU, rReq, rResp, rR, rErr,
                   rFetched, rParsed, rHttp, rClones, rUsed, nonRemoteVars>>

\* repoURL, err := url.Parse(repo.URL)
FetchParse ==
    /\ rPc = "parse"
    /\ rParsed' = Append(rParsed, theRepo.URL)
    /\ rUsed' = rUsed \cup {rRepo}
    /\ LET p == URLParse(theRepo.URL) IN
       IF p.ok
       THEN rRepoURL' = p.u /\ rPc' = "choose" /\ rRet' = rRet
       ELSE rRepoURL' = rRepoURL /\ rPc' = "done" /\ rRet' = Result(NilHandle, WithStack(p.err))
    /\ UNCHANGED <<rRepos, rPath, rDirect, rRepo, rU, rReq, rResp, rR, rErr,
                   rFetched, rHttp, rClones, nonRemoteVars>>

\* fetcher, err := chooseFetcher(config, repo, repoURL); u := &url.URL{}; *u = *repoURL
FetchChoose ==
    /\ rPc = "choose"
    /\ IF chooseFetcher(rRepoURL) = "unsupported"
       THEN /\ rPc' = "done"
            /\ rRet' = Result(NilHandle, WithStack(Errorf("unsupported repository source", theRepo.URL)))
            /\ rU' = rU
       ELSE /\ rPc' = chooseFetcher(rRepoURL)
            /\ rU' = rRepoURL
            /\ rRet' = rRet
    /\ UNCHANGED <<rRepos, rPath, rDirect, rRepo, rRepoURL, rReq, rResp, rR, rErr,
                   rFetched, rParsed, rHttp, rClones, rUsed, nonRemoteVars>>

\* githubFetcher(u, relSrc, commit), up to its call of httpGet
GithubFetcher ==
    /\ rPc = "github"
    /\ rU' = SchemeRewritten(rU)
    /\ LET parts == Split(TrimSuffix(rU'.Path, <<".git">>)) IN
       IF Len(parts) # 3
       THEN /\ rFetched' = Failure(Errorf("expected GitHub URL path", rU'.Path))
            /\ rPc' = "fetched"
            /\ rReq' = rReq
       ELSE /\ rReq' = URLString(URLParse(RawURL(parts[2], parts[3], commit, relPath)).u)
            /\ rPc' = "http"
            /\ rFetched' = rFetched
    /\ UNCHANGED <<rRepos, rPath, rDirect, rRepo, rRepoURL, rResp, rR, rErr,
                   rRet, rParsed, rHttp, rClones, rUsed, nonRemoteVars>>

\* bitBucketFetcher(repoURL, relSrc, commit), up to its call of httpGet: it
\* works on a copy of the URL.
BitBucketFetcher ==
    /\ rPc = "bitbucket"
    /\ LET parts == Split(TrimSuffix(rU.Path, <<".git">>)) IN
       IF Len(parts) # 4 \/ parts[2] # <<"scm">>
       THEN /\ rFetched' = Failure(Errorf("expected Bitbucket URL path", rU.Path))
            /\ rPc' = "fetched"
            /\ rReq' = rReq
       ELSE LET u == [rU EXCEPT !.Scheme = "https", !.User = <<>>,
                                !.Path = PathJoin(<<"projects">>, PathJoin(parts[3],
                                         PathJoin(<<"repos">>, PathJoin(parts[4],
                                         PathJoin(<<"raw">>, relPath)))))] IN
            /\ rReq' = URLString(u) \o <<"?", "at=", commit>>
            /\ rPc' = "http"
            /\ rFetched' = rFetched
    /\ UNCHANGED <<rRepos, rPath, rDirect, rRepo, rRepoURL, rU, rResp, rR, rErr,
                   rRet, rParsed, rHttp, rClones, rUsed, nonRemoteVars>>

\* httpGet(srcURL): the request fails, or the server answers.
HttpGet ==
    /\ rPc = "http"
    /\ rHttp' = Append(rHttp, rReq)
    /\ \/ /\ rFetched' = Failure(WithStack(Errorf("http.Get", rReq)))
          /\ rResp' = NoResponse
       \/ \E resp \in Responses :
          /\ rFetched' = httpGet(rReq, resp)
          /\ rResp' = resp
    /\ rPc' = "fetched"
    /\ UNCHANGED <<rRepos, rPath, rDirect, rRepo, rRepoURL, rU, rReq, rR, rErr,
                   rRet, rParsed, rClones, rUsed, nonRemoteVars>>

\* r, err := fetcher(u, relPath, repo.Commit()); if errors.Is(err, errNotFound) { ...
FetchFallback ==
    /\ rPc = "fetched" /\ ~rDirect
    /\ rR' = rFetched.r
    /\ rErr' = rFetched.err
    /\ rPc' = IF IsNotFound(rFetched.err) THEN "clone" ELSE "return"
    /\ UNCHANGED <<rRepos, rPath, rDirect, rRepo, rRepoURL, rU, rReq, rResp,
                   rRet, rFetched, rParsed, rHttp, rClones, rUsed, nonRemoteVars>>

\* cloner(u, relPath, commit): os.UserCacheDir and os.MkdirAll
ClonerDirs ==
    /\ rPc = "clone"
    /\ rClones' = Append(rClones, URLString(rU))
    /\ \/ rPc' = "gitClone" /\ UNCHANGED <<rR, rErr>>
       \/ \E e \in {"UserCacheDir", "cannot create protosync cache directory"} :
          /\ rPc' = "cloned"
          /\ rR' = NilHandle
          /\ rErr' = Errorf(e, <<>>)
    /\ UNCHANGED <<rRepos, rPath, rDirect, rRepo, rRepoURL, rU, rReq, rResp,
                   rRet, rFetched, rParsed, rHttp, rUsed, nonRemoteVars>>

\* gitClone(u.String(), dest) and git checkout
ClonerGitClone ==
    /\ rPc = "gitClone"
    /\ \/ rPc' = "open" /\ UNCHANGED <<rR, rErr>>
       \/ \E e \in {"git clone failed", "git pull failed", "git checkout failed"} :
          /\ rPc' = "cloned"
          /\ rR' = NilHandle
          /\ rErr' = WithStack(Errorf(e, URLString(rU)))
    /\ UNCHANGED <<rRepos, rPath, rDirect, rRepo, rRepoURL, rU, rReq, rResp,
                   rRet, rFetched, rParsed, rHttp, rClones, rUsed, nonRemoteVars>>

\* r, err := os.Open(path.Join(dest, relPath))
ClonerOpen ==
    /\ rPc = "open"
    /\ rPc' = "cloned"
    /\ \/ /\ rR' = NamedHandle(URLString(rU) \o <<" + ">> \o relPath, ProtoBody)
          /\ rErr' = Nil
       \/ /\ rR' = NilHandle
          /\ rErr' = WithStack(Errorf("open", relPath))
    /\ UNCHANGED <<rRepos, rPath, rDirect, rRepo, rRepoURL, rU, rReq, rResp,
                   rRet, rFetched, rParsed, rHttp, rClones, rUsed, nonRemoteVars>>

\* if r, err = cloner(...); err != nil { err = errors.Wrap(fetchErr, err.Error()) }
\* if err != nil { return nil, errors.Wrap(err, repo.URL) }; return r, nil
FetchReturn ==
    /\ rPc \in {"cloned", "return"}
    /\ LET e == IF rPc = "cloned" /\ rErr # Nil THEN FallbackError(rFetched.err, rErr) ELSE rErr IN
       rRet' = IF e # Nil THEN Result(NilHandle, Wrap(e, theRepo.URL)) ELSE Result(rR, Nil)
    /\ rPc' = "done"
    /\ UNCHANGED <<rRepos, rPath, rDirect, rRepo, rRepoURL, rU, rReq, rResp, rR, rErr,
                   rFetched, rParsed, rHttp, rClones, rUsed, nonRemoteVars>>

\* The tests' call: u, err := repo.ParseURL(); githubFetcher(u, "nonexistingcontent", "")
TestCall ==
    /\ rPc = "idle" /\ rDirect
    /\ rParsed' = Append(rParsed, rRepos[1].URL)
    /\ LET p == ParseURL(rRepos[1].URL) IN
       IF p.ok
       THEN rU' = p.u /\ rRepoURL' = p.u /\ rPc' = "github" /\ rRet' = rRet
       ELSE rU' = rU /\ rRepoURL' = rRepoURL /\ rPc' = "done" /\ rRet' = Result(NilHandle, p.err)
    /\ UNCHANGED <<rRepos, rPath, rDirect, rRepo, rReq, rResp, rR, rErr,
                   rFetched, rHttp, rClones, rUsed, nonRemoteVars>>

\* reader, err := githubFetcher(...)
TestReturn ==
    /\ rPc = "fetched" /\ rDirect
    /\ rRet' = Result(rFetched.r, rFetched.err)
    /\ rPc' = "done"
    /\ UNCHANGED <<rRepos, rPath, rDirect, rRepo, rRepoURL, rU, rReq, rResp, rR, rErr,
                   rFetched, rParsed, rHttp, rClones, rUsed, nonRemoteVars>>

RemoteIdle ==
    /\ rRepos = <<>> /\ rPath = <<>> /\ rDirect = FALSE
    /\ rPc = "idle" /\ rRepo = 0 /\ rRepoURL = NoURL /\ rU = NoURL /\ rReq = <<>>
    /\ rResp = NoResponse /\ rR = NilHandle /\ rErr = Nil /\ rRet = NotReturned
    /\ rFetched = NotFound /\ rParsed = <<>> /\ rHttp = <<>> /\ rClones = <<>> /\ rUsed = {}

RemoteInit ==
    /\ rDirect \in BOOLEAN
    /\ IF rDirect
       THEN rRepos \in {<<TestRepo(u)>> : u \in TestURLs} /\ rPath = NonExisting
       ELSE rRepos \in SeqsUpTo(Descriptors, MaxRepos) /\ rPath \in RemotePaths
    /\ rPc = "idle" /\ rRepo = 0 /\ rRepoURL = NoURL /\ rU = NoURL /\ rReq = <<>>
    /\ rResp = NoResponse /\ rR = NilHandle /\ rErr = Nil /\ rRet = NotReturned
    /\ rFetched = NotFound /\ rParsed = <<>> /\ rHttp = <<>> /\ rClones = <<>> /\ rUsed = {}

-----------------------------------------------------------------------------
\* ArtifactoryJAR: a resolver over one archive, opened by its first call.

\* repository.Version: pinned, or "" for the latest. The versions the metadata
\* can name.
Versions == {"1.0", "2.0"}
Unpinned == ""
ArtifactName == "protos"
\* filename := fmt.Sprintf("%s-%s.jar", artifactName, version)
\* dest := filepath.Join(cacheDir, filename)
JarFilename(version) == <<ArtifactName, "-", version, ".jar">>
JarDest(version) == <<"cache", "/">> \o JarFilename(version)

\* What a file of the cache directory or a response body holds: the entries of
\* an archive, each a file name, and the directory that ends an archive; or
\* something else.
Piece(name, data) == [Name |-> name, data |-> data]
EndOfArchive == Piece(<<"EOCD">>, <<>>)
GoodJar == << Piece(<<"B", ".proto">>, <<"upper">>), Piece(<<"a", ".proto">>, <<"first">>),
              Piece(<<"a", ".proto">>, <<"second">>), EndOfArchive >>
ErrorPage == << Piece(<<"<html>">>, <<>>), Piece(<<"404">>, <<>>) >>
JarBodies == {GoodJar, ErrorPage}
JarResponses == [status : {200, 404}, body : JarBodies]
JarPaths == {<<"a", ".proto">>, <<"b", ".proto">>}

\* zip.OpenReader: an archive is read from its end; a file without the ending
\* directory does not open.
IsZip(bytes) == bytes # <<>> /\ bytes[Len(bytes)] = EndOfArchive
ZipEntries(bytes) == SubSeq(bytes, 1, Len(bytes) - 1)
NoZip == [isNil |-> TRUE, File |-> <<>>]
ZipReadCloser(bytes) == [isNil |-> FALSE, File |-> ZipEntries(bytes)]

\* An instance that initializes at every call; one that initializes at its
\* first call only.
NeedsInitAlways(zipFile) == TRUE
NeedsInitFirstCall(zipFile) == zipFile = NoZip /\ jSteps = <<>> /\ jRet = NotReturned
\* if zipFile == nil
NeedsInit(zipFile) == zipFile = NoZip

\* An openJAR that downloads whatever the cache holds.
CacheHitNever(cache, version) == FALSE
\* if _, err := os.Stat(dest); err == nil
CacheHit(cache, version) == cache[version].st # "absent"

\* An openJAR that renames the temporary file before the copy has ended.
CopyDoneEarly(tmp, body) == TRUE
\* io.Copy has returned nil: the whole body is in the temporary file.
CopyDone(tmp, body) == tmp.bytes = body

\* The temporary file being written: the last one made.
TheTemp == jTemps[Len(jTemps)]

\* The instance returns: the closure's variables keep what was assigned.
JarReturn(out) ==
    /\ jRet' = Result(out.r, out.err)
    /\ jPc' = "idle"

\* openJAR returned an error: jarPath, zipFile, err = "", nil, err.
InitFails(e) ==
    /\ jPath' = <<>>
    /\ jZip' = NoZip
    /\ JarReturn(Failure(e))

\* The resolver is called; if zipFile == nil { ... openJAR(...) }.
\* cacheDir, err := os.UserCacheDir()
JarCall ==
    /\ jPc = "idle"
    /\ jCalls < MaxCalls
    /\ jCalls' = jCalls + 1
    /\ \E path \in JarPaths : jArg' = path
    /\ jSteps' = <<>>
    /\ jHit' = FALSE
    /\ jResp' = NoResponse
    /\ jVer' = Unpinned
    /\ IF NeedsInit(jZip)
       THEN \/ /\ InitFails(WithStack(Errorf("UserCacheDir", <<>>)))
            \/ /\ jPc' = IF jVersion = Unpinned THEN "metadata" ELSE "stat"
               /\ UNCHANGED <<jRet, jPath, jZip>>
       ELSE jPc' = "lookup" /\ UNCHANGED <<jRet, jPath, jZip>>
    /\ UNCHANGED <<jVersion, jCache, jTemps, jProbes, jDownloads, jOpens,
                   nonJarVars>>

\* version, err = syncJARMetadata(artifactoryURL, repository.Path): one GET of
\* maven-metadata.xml; the version of its first <latest>, or an error.
OpenJARMetadata ==
    /\ jPc = "metadata"
    /\ jProbes' = jProbes + 1
    /\ jSteps' = Append(jSteps, "probe")
    /\ \/ /\ \E cause \in {"http.Get", "xml", "could not find latest version"} :
                InitFails(WithStack(Errorf(cause, <<>>)))
          /\ UNCHANGED jVer
       \/ /\ \E v \in Versions : jVer' = v
          /\ jPc' = "stat"
          /\ UNCHANGED <<jRet, jPath, jZip>>
    /\ UNCHANGED <<jVersion, jCache, jTemps, jCalls, jArg, jDownloads, jOpens, jHit, jResp,
                   nonJarVars>>

\* if _, err := os.Stat(dest); err == nil { zr, err := zip.OpenReader(dest) ... }
OpenJARStat ==
    /\ jPc = "stat"
    /\ jVer' = IF jVersion = Unpinned THEN jVer ELSE jVersion
    /\ jHit' = (jCache[jVer'].st = "file")
    /\ jPc' = IF CacheHit(jCache, jVer') THEN "open" ELSE "get"
    /\ UNCHANGED <<jVersion, jCache, jTemps, jZip, jPath, jArg, jRet, jCalls, jProbes,
                   jDownloads, jOpens, jSteps, jResp, nonJarVars>>

\* req, err := http.NewRequest("GET", jarPath, nil); resp, err := http.DefaultClient.Do(req)
\* The status of the response is not looked at.
OpenJARGet ==
    /\ jPc = "get"
    /\ \/ /\ InitFails(WithStack(Errorf("http.NewRequest", <<>>)))
          /\ UNCHANGED <<jDownloads, jSteps, jResp>>
       \/ /\ jDownloads' = jDownloads + 1
          /\ jSteps' = Append(jSteps, "download")
          /\ \/ /\ InitFails(WithStack(Errorf("http.Do", <<>>)))
                /\ UNCHANGED jResp
             \/ /\ \E resp \in JarResponses : jResp' = resp
                /\ jPc' = "temp"
                /\ UNCHANGED <<jRet, jPath, jZip>>
    /\ UNCHANGED <<jVersion, jCache, jTemps, jArg, jCalls, jProbes, jOpens, jHit, jVer,
                   nonJarVars>>

\* w, err := ioutil.TempFile(cacheDir, artifactName+"-*.jar")
OpenJARTempFile ==
    /\ jPc = "temp"
    /\ \/ /\ InitFails(WithStack(Errorf("TempFile", <<>>)))
          /\ UNCHANGED jTemps
       \/ /\ jTemps' = Append(jTemps, File(<<>>))
          /\ jPc' = "copy"
          /\ UNCHANGED <<jRet, jPath, jZip>>
    /\ UNCHANGED <<jVersion, jCache, jArg, jCalls, jProbes, jDownloads, jOpens, jSteps,
                   jHit, jResp, jVer, nonJarVars>>

\* _, err = io.Copy(w, resp.Body): the body goes to the temporary file piece by
\* piece; a read or a write may fail, and what was written stays.
OpenJARCopy ==
    /\ jPc = "copy"
    /\ IF CopyDone(TheTemp, jResp.body)
       THEN /\ jPc' = "rename"
            /\ UNCHANGED <<jTemps, jRet, jPath, jZip>>
       ELSE \/ /\ InitFails(WithStack(Errorf("io.Copy", <<>>)))
               /\ UNCHANGED jTemps
            \/ /\ jTemps' = [jTemps EXCEPT ![Len(jTemps)] =
                                File(Append(@.bytes, jResp.body[Len(@.bytes) + 1]))]
               /\ UNCHANGED <<jPc, jRet, jPath, jZip>>
    /\ UNCHANGED <<jVersion, jCache, jArg, jCalls, jProbes, jDownloads, jOpens, jSteps,
                   jHit, jResp, jVer, nonJarVars>>

\* err = os.Rename(w.Name(), dest)
OpenJARRename ==
    /\ jPc = "rename"
    /\ \/ /\ InitFails(WithStack(Errorf("os.Rename", <<>>)))
          /\ UNCHANGED <<jTemps, jCache>>
       \/ /\ jCache' = [jCache EXCEPT ![jVer] = TheTemp]
          /\ jTemps' = SubSeq(jTemps, 1, Len(jTemps) - 1)
          /\ jPc' = "open"
          /\ UNCHANGED <<jRet, jPath, jZip>>
    /\ UNCHANGED <<jVersion, jArg, jCalls, jProbes, jDownloads, jOpens, jSteps,
                   jHit, jResp, jVer, nonJarVars>>

\* zr, err := zip.OpenReader(dest); return dest, zr, errors.WithStack(err)
OpenJAROpenReader ==
    /\ jPc = "open"
    /\ jOpens' = jOpens + 1
    /\ jSteps' = Append(jSteps, "open")
    /\ jPath' = JarDest(jVer)
    /\ \/ /\ jZip' = NoZip
          /\ JarReturn(Failure(WithStack(Errorf("zip.OpenReader", JarDest(jVer)))))
       \/ /\ IsZip(jCache[jVer].bytes)
          /\ jZip' = ZipReadCloser(jCache[jVer].bytes)
          /\ jPc' = "lookup"
          /\ UNCHANGED jRet
    /\ UNCHANGED <<jVersion, jCache, jTemps, jArg, jCalls, jProbes, jDownloads,
                   jHit, jResp, jVer, nonJarVars>>

\* A resolver that takes a name for the path when they differ in case only.
Fold(name) == [i \in DOMAIN name |-> IF name[i] = "B" THEN "b" ELSE name[i]]
NameEqualsFold(name, path) == Fold(name) = Fold(path)
\* if file.Name == path
NameEquals(name, path) == name = path

\* for _, file := range zipFile.File { if file.Name == path { r, err := file.Open() ... } }
\* return nil, nil
JarLookup ==
    /\ jPc = "lookup"
    /\ LET found == {i \in 1..Len(jZip.File) : NameEquals(jZip.File[i].Name, jArg)} IN
       IF found # {}
       THEN LET file == jZip.File[CHOOSE i \in found : \A j \in found : i <= j] IN
            \/ JarReturn(Failure(Wrap(Errorf("file.Open", <<>>), jPath)))
            \/ JarReturn([r |-> NamedHandle(jPath \o <<"#">> \o jArg, file.data), err |-> Nil])
       ELSE JarReturn(NotFound)
    /\ UNCHANGED <<jVersion, jCache, jTemps, jZip, jPath, jArg, jCalls, jProbes, jDownloads,
                   jOpens, jSteps, jHit, jResp, jVer, nonJarVars>>

\* The process dies in the middle of a call.
JarCrash ==
    /\ jPc \notin {"idle", "unused", "crashed"}
    /\ jPc' = "crashed"
    /\ UNCHANGED <<jVersion, jCache, jTemps, jZip, jPath, jArg, jRet, jCalls, jProbes,
                   jDownloads, jOpens, jSteps, jHit, jResp, jVer,
                   nonJarVars>>

\* A new process makes a new instance over the same cache directory.
JarRestart ==
    /\ jPc = "crashed"
    /\ jPc' = "idle"
    /\ jZip' = NoZip /\ jPath' = <<>> /\ jArg' = <<>> /\ jRet' = NotReturned
    /\ jProbes' = 0 /\ jDownloads' = 0 /\ jOpens' = 0
    /\ jSteps' = <<>> /\ jHit' = FALSE /\ jResp' = NoResponse /\ jVer' = Unpinned
    /\ UNCHANGED <<jVersion, jCache, jTemps, jCalls, nonJarVars>>

\* No instance was made.
JarIdle ==
    /\ jVersion = Unpinned /\ jCache = [v \in Versions |-> Absent] /\ jTemps = <<>>
    /\ jZip = NoZip /\ jPath = <<>> /\ jPc = "unused" /\ jArg = <<>> /\ jRet = NotReturned
    /\ jCalls = 0 /\ jProbes = 0 /\ jDownloads = 0 /\ jOpens = 0
    /\ jSteps = <<>> /\ jHit = FALSE /\ jResp = NoResponse /\ jVer = Unpinned

\* ArtifactoryJAR(artifactoryURL, jarURL, repository) has returned an instance;
\* the cache directory holds what earlier processes installed.
JarInit ==
    /\ jVersion \in {Unpinned} \cup Versions
    /\ jCache \in [Versions -> {Absent, File(GoodJar)}]
    /\ jTemps = <<>>
    /\ jZip = NoZip /\ jPath = <<>> /\ jPc = "idle" /\ jArg = <<>> /\ jRet = NotReturned
    /\ jCalls = 0 /\ jProbes = 0 /\ jDownloads = 0 /\ jOpens = 0
    /\ jSteps = <<>> /\ jHit = FALSE /\ jResp = NoResponse /\ jVer = Unpinned

-----------------------------------------------------------------------------
\* syncJARMetadata: a streaming read of maven-metadata.xml.

\* The tokens of a document; Malformed is text that is not XML.
StartElement(name) == [kind |-> "start", name |-> name]
EndElement(name) == [kind |-> "end", name |-> name]
CharData(text) == [kind |-> "chardata", name |-> text]
Malformed == [kind |-> "malformed", name |-> ""]
XMLTokens == {StartElement("metadata"), EndElement("metadata"), StartElement("latest"),
              EndElement("latest"), CharData("1.0"), Malformed}
MetadataStreams == SeqsUpTo(XMLTokens, MaxTokens)

NoVersion == <<>>
NotProbed == [st |-> "none", version |-> NoVersion, err |-> Nil]
Probed(version, e) == [st |-> "returned", version |-> version, err |-> e]

\* dec.Token(): the next token and the stack of open elements after it, or an
\* error: at the end of the input io.EOF, or a syntax error when an element is
\* open; a syntax error at text that is not XML and at an end tag that does not
\* close the innermost open element. A nil token comes with an error only.
Token(stream, pos, open) ==
    IF pos >= Len(stream)
    THEN [err |-> Errorf(IF open = <<>> THEN "EOF" ELSE "unexpected EOF", <<>>),
          t |-> Malformed, open |-> open, pos |-> pos]
    ELSE LET t == stream[pos + 1] IN
         CASE t.kind = "start" ->
                [err |-> Nil, t |-> t, open |-> Append(open, t.name), pos |-> pos + 1]
           [] t.kind = "chardata" ->
                [err |-> Nil, t |-> t, open |-> open, pos |-> pos + 1]
           [] t.kind = "end" /\ open # <<>> /\ open[Len(open)] = t.name ->
                [err |-> Nil, t |-> t, open |-> SubSeq(open, 1, Len(open) - 1), pos |-> pos + 1]
           [] OTHER ->
                [err |-> Errorf("XML syntax error", <<>>), t |-> t, open |-> open, pos |-> pos + 1]

\* A probe that never sees the marker.
IsLatestNever(t) == FALSE
\* if se, ok := t.(xml.StartElement); ok { if se.Name.Local == "latest" {
IsLatest(t) == t.kind = "start" /\ t.name = "latest"

\* The depth of the element DecodeElement decodes: the first open <latest>.
LatestDepth(open) == CHOOSE i \in 1..Len(open) : open[i] = "latest" /\ \A j \in 1..(i - 1) : open[j] # "latest"

\* resp, err := http.Get(url)
MetadataGet ==
    /\ mPc = "get"
    /\ \/ /\ mRet' = Probed(NoVersion, WithStack(Errorf("http.Get", <<>>)))
          /\ mPc' = "done"
       \/ /\ mPc' = "token"
          /\ UNCHANGED mRet
    /\ UNCHANGED <<mStream, mPos, mOpen, mData, nonMetaVars>>

\* One turn of the loop: t, err := dec.Token(); an error is returned; the
\* start of <latest> hands over to DecodeElement; any other token is passed.
MetadataToken ==
    /\ mPc = "token"
    /\ LET d == Token(mStream, mPos, mOpen) IN
       /\ mPos' = d.pos
       /\ mOpen' = d.open
       /\ IF d.err # Nil
          THEN mRet' = Probed(NoVersion, WithStack(d.err)) /\ mPc' = "done"
          ELSE /\ mPc' = IF IsLatest(d.t) THEN "decode" ELSE "token"
               /\ UNCHANGED mRet
    /\ UNCHANGED <<mStream, mData, nonMetaVars>>

\* var version string; return version, dec.DecodeElement(&version, &se)
\* DecodeElement reads, token by token, up to the end tag of the element; the
\* character data directly inside it is the string, set when the end tag is
\* reached. The compiler makes the call before it reads version for the
\* return.
MetadataDecodeElement ==
    /\ mPc = "decode"
    /\ LET d == Token(mStream, mPos, mOpen)
           depth == LatestDepth(mOpen) IN
       /\ mPos' = d.pos
       /\ mOpen' = d.open
       /\ IF d.err # Nil
          THEN /\ mRet' = Probed(NoVersion, d.err)
               /\ mPc' = "done"
               /\ UNCHANGED mData
          ELSE IF Len(d.open) < depth
          THEN /\ mRet' = Probed(mData, Nil)
               /\ mPc' = "done"
               /\ UNCHANGED mData
          ELSE /\ mData' = IF d.t.kind = "chardata" /\ Len(mOpen) = depth
                           THEN Append(mData, d.t.name) ELSE mData
               /\ UNCHANGED <<mPc, mRet>>
    /\ UNCHANGED <<mStream, nonMetaVars>>

\* syncJARMetadata is not called.
MetaIdle ==
    /\ mStream = <<>> /\ mPos = 0 /\ mOpen = <<>> /\ mData = <<>>
    /\ mPc = "unused" /\ mRet = NotProbed

\* syncJARMetadata(artifactoryURL, repositoryPath) is called, and the server
\* holds some document.
MetaInit ==
    /\ mStream \in MetadataStreams
    /\ mPos = 0 /\ mOpen = <<>> /\ mData = <<>>
    /\ mPc = "get" /\ mRet = NotProbed

-----------------------------------------------------------------------------
\* cloner and gitClone, run by processes that share the cache directory.

Procs == 1..NumProcs

\* A directory holds what git has written of a clone so far: first .git, then
\* the objects, then the work tree.
FullClone == <<".git", "objects", "worktree">>
NoDir == [st |-> "absent", parts |-> <<>>]
Dir(parts) == [st |-> "dir", parts |-> parts]
\* info, _ := os.Stat(path.Join(destDir, ".git")); info != nil
HasGit(dir) == dir.st = "dir" /\ Len(dir.parts) >= 1 /\ dir.parts[1] = ".git"

\* A gitClone that renames whatever the temporary directory holds.
CloneCompleteAlways(dir) == TRUE
\* runInDir(tmpDestDir, "git", "clone", ...) has returned nil.
CloneComplete(dir) == dir = Dir(FullClone)

\* os.Rename(old, new) of a directory: new must be absent or an empty
\* directory.
RenameAllowed(new) == new.st = "absent" \/ new.parts = <<>>

\* The process returns err; defer os.RemoveAll(tmpDestDir) has run if the
\* temporary directory was made.
CloneReturns(p, e) ==
    /\ gErr' = [gErr EXCEPT ![p] = e]
    /\ gPc' = [gPc EXCEPT ![p] = "done"]

\* cloner: os.UserCacheDir(), os.MkdirAll(filepath.Dir(dest), 0o700), then
\* gitClone: info, _ := os.Stat(path.Join(destDir, ".git"))
ClonerStat(p) ==
    /\ gPc[p] = "start"
    /\ \/ /\ \E cause \in {"UserCacheDir", "cannot create protosync cache directory"} :
                CloneReturns(p, Errorf(cause, <<>>))
          /\ UNCHANGED gSaw
       \/ /\ gSaw' = [gSaw EXCEPT ![p] = IF HasGit(gDest) THEN "git" ELSE "no git"]
          /\ gPc' = [gPc EXCEPT ![p] = IF HasGit(gDest) THEN "pull" ELSE "mkdirtemp"]
          /\ UNCHANGED gErr
    /\ UNCHANGED <<gDest, gTmp, gStart, nonCloneVars>>

\* if info != nil { return runInDir(destDir, "git", "pull") }
GitClonePull(p) ==
    /\ gPc[p] = "pull"
    /\ \/ CloneReturns(p, WithStack(Errorf("git pull failed", <<>>)))
       \/ gPc' = [gPc EXCEPT ![p] = "checkout"] /\ UNCHANGED gErr
    /\ UNCHANGED <<gDest, gTmp, gSaw, gStart, nonCloneVars>>

\* tmpDestDir, err := os.MkdirTemp(filepath.Dir(destDir), filepath.Base(destDir)+"-*")
GitCloneMkdirTemp(p) ==
    /\ gPc[p] = "mkdirtemp"
    /\ \/ /\ CloneReturns(p, Wrap(Errorf("MkdirTemp", <<>>), <<"cannot create temp directory for git clone">>))
          /\ UNCHANGED gTmp
       \/ /\ gTmp' = [gTmp EXCEPT ![p] = Dir(<<>>)]
          /\ gPc' = [gPc EXCEPT ![p] = "clone"]
          /\ UNCHANGED gErr
    /\ UNCHANGED <<gDest, gSaw, gStart, nonCloneVars>>

\* runInDir(tmpDestDir, "git", "clone", sourceURL, tmpDestDir): git fills the
\* temporary directory part by part; when it fails the deferred RemoveAll
\* removes what it wrote.
GitCloneRun(p) ==
    /\ gPc[p] = "clone"
    /\ IF CloneComplete(gTmp[p])
       THEN /\ gPc' = [gPc EXCEPT ![p] = "rename"]
            /\ UNCHANGED <<gTmp, gErr>>
       ELSE \/ /\ gTmp' = [gTmp EXCEPT ![p] = NoDir]
               /\ CloneReturns(p, WithStack(Errorf("git clone failed", <<>>)))
            \/ /\ gTmp' = [gTmp EXCEPT ![p] =
                              Dir(Append(@.parts, FullClone[Len(@.parts) + 1]))]
               /\ UNCHANGED <<gPc, gErr>>
    /\ UNCHANGED <<gDest, gSaw, gStart, nonCloneVars>>

\* if err = os.Rename(tmpDestDir, destDir); err != nil { return errors.WithStack(err) }
GitCloneRename(p) ==
    /\ gPc[p] = "rename"
    /\ IF RenameAllowed(gDest)
       THEN \/ /\ gDest' = gTmp[p]
               /\ gTmp' = [gTmp EXCEPT ![p] = NoDir]
               /\ gPc' = [gPc EXCEPT ![p] = "checkout"]
               /\ UNCHANGED gErr
            \/ /\ gTmp' = [gTmp EXCEPT ![p] = NoDir]
               /\ CloneReturns(p, WithStack(Errorf("rename", <<>>)))
               /\ UNCHANGED gDest
       ELSE /\ gTmp' = [gTmp EXCEPT ![p] = NoDir]
            /\ CloneReturns(p, WithStack(Errorf("rename: directory not empty", <<>>)))
            /\ UNCHANGED gDest
    /\ UNCHANGED <<gSaw, gStart, nonCloneVars>>

\* cloner: runInDir(dest, "git", "checkout", commit); os.Open(path.Join(dest, relPath))
ClonerCheckoutOpen(p) ==
    /\ gPc[p] = "checkout"
    /\ \/ \E cause \in {"git checkout failed", "open"} : CloneReturns(p, WithStack(Errorf(cause, <<>>)))
       \/ CloneReturns(p, Nil)
    /\ UNCHANGED <<gDest, gTmp, gSaw, gStart, nonCloneVars>>

\* The process is killed in the middle of cloner: nothing deferred runs.
ClonerKilled(p) ==
    /\ gPc[p] \notin {"unused", "start", "done", "killed"}
    /\ gPc' = [gPc EXCEPT ![p] = "killed"]
    /\ UNCHANGED <<gDest, gTmp, gErr, gSaw, gStart, nonCloneVars>>

\* cloner is not called.
CloneIdle ==
    /\ gDest = NoDir /\ gStart = NoDir
    /\ gTmp = [p \in Procs |-> NoDir]
    /\ gPc = [p \in Procs |-> "unused"]
    /\ gErr = [p \in Procs |-> Nil]
    /\ gSaw = [p \in Procs |-> "nothing"]

\* Each process is about to call cloner for the same URL and revision; the
\* cache holds no clone, or a clone an earlier process renamed into place.
CloneInit ==
    /\ gDest \in {NoDir, Dir(FullClone)} /\ gStart = gDest
    /\ gTmp = [p \in Procs |-> NoDir]
    /\ gPc = [p \in Procs |-> "start"]
    /\ gErr = [p \in Procs |-> Nil]
    /\ gSaw = [p \in Procs |-> "nothing"]

-----------------------------------------------------------------------------
\* Local: a resolver over the directories that the include patterns match.

LocalPath == <<"x", ".proto">>
IncA == <<"inc", "/", "a">>
IncB == <<"inc", "/", "b">>
Gen == <<"gen">>
LocalDirs == {IncA, IncB, Gen}
\* What is at <root>/<path>: a file, nothing, something os.Open fails on with
\* an error other than "does not exist"; or the directory itself is missing.
OpenOutcomes == {"file", "absent", "denied", "nodir"}

PatStar == <<"inc", "/", "*">>
PatGen == <<"gen">>
PatBad == <<"[">>
Patterns == {PatStar, PatGen, PatBad}

\* filepath.Glob(pattern): the existing directories that match, in lexical
\* order; ErrBadPattern for a malformed pattern.
Matching(pattern) ==
    IF pattern = PatStar THEN <<IncA, IncB>>
    ELSE IF pattern = PatGen THEN <<Gen>>
    ELSE <<>>
Present(root) == lFs[root] # "nodir"
Glob(pattern) ==
    IF pattern = PatBad
    THEN [roots |-> <<>>, err |-> Errorf("syntax error in pattern", pattern)]
    ELSE [roots |-> SelectSeq(Matching(pattern), Present), err |-> Nil]

\* An os.IsNotExist that takes every error of os.Open for "does not exist".
IsNotExistAnyError(outcome) == outcome # "file"
IsNotExist(outcome) == outcome = "absent"

\* Local(includes)(path)
LocalCall ==
    /\ lPc = "idle"
    /\ lPc' = "glob"
    /\ lI' = 1
    /\ UNCHANGED <<lIncludes, lFs, lRoots, lJ, lRet, lOpens, nonLocalVars>>

\* for _, include := range includes { roots, err := filepath.Glob(include) ...
\* and, after the last pattern, return nil, nil
LocalGlob ==
    /\ lPc = "glob"
    /\ IF lI > Len(lIncludes)
       THEN /\ lPc' = "done"
            /\ lRet' = Result(NilHandle, Nil)
            /\ UNCHANGED <<lRoots, lJ>>
       ELSE LET g == Glob(lIncludes[lI]) IN
            IF g.err # Nil
            THEN /\ lPc' = "done"
                 /\ lRet' = Result(NilHandle, WithStack(g.err))
                 /\ UNCHANGED <<lRoots, lJ>>
            ELSE /\ lPc' = "open"
                 /\ lRoots' = g.roots
                 /\ lJ' = 1
                 /\ lRet' = lRet
    /\ UNCHANGED <<lIncludes, lFs, lI, lOpens, nonLocalVars>>

\* for _, root := range roots { r, err := os.Open(filepath.Join(root, path)) ...
LocalOpen ==
    /\ lPc = "open"
    /\ IF lJ > Len(lRoots)
       THEN /\ lPc' = "glob"
            /\ lI' = lI + 1
            /\ UNCHANGED <<lJ, lRet, lOpens>>
       ELSE LET localPath == Join(lRoots[lJ], LocalPath)
                outcome == lFs[lRoots[lJ]] IN
            /\ lOpens' = Append(lOpens, localPath)
            /\ IF IsNotExist(outcome)
               THEN /\ lJ' = lJ + 1
                    /\ UNCHANGED <<lPc, lI, lRet>>
               ELSE IF outcome # "file"
               THEN /\ lPc' = "done"
                    /\ lRet' = Result(NilHandle, WithStack(Errorf("open", localPath)))
                    /\ UNCHANGED <<lI, lJ>>
               ELSE /\ lPc' = "done"
                    /\ lRet' = Result(NamedHandle(localPath, lRoots[lJ]), Nil)
                    /\ UNCHANGED <<lI, lJ>>
    /\ UNCHANGED <<lIncludes, lFs, lRoots, nonLocalVars>>

LocalIdle ==
    /\ lIncludes = <<>> /\ lFs = [d \in LocalDirs |-> "nodir"]
    /\ lPc = "idle" /\ lI = 0 /\ lRoots = <<>> /\ lJ = 0 /\ lRet = NotReturned /\ lOpens = <<>>

LocalInit ==
    /\ lIncludes \in SeqsUpTo(Patterns, MaxIncludes)
    /\ lFs \in [LocalDirs -> OpenOutcomes]
    /\ lPc = "idle" /\ lI = 0 /\ lRoots = <<>> /\ lJ = 0 /\ lRet = NotReturned /\ lOpens = <<>>

-----------------------------------------------------------------------------
\* The specification of Sync.

LocalFiles(srcs) ==
    IF \E i \in 1..Len(srcs) : srcs[i] = Inc
    THEN {S \cup {Notes} : S \in {T \in SUBSET (LocalNames \ {Notes}) :
                                        Cardinality(T) <= MaxLocalFiles}}
    ELSE {{}}

SyncInit ==
    /\ sources \in SeqsUpTo(ImportPaths \cup Dirs, MaxSources)
    /\ \E S \in LocalFiles(sources) :
       fs = [n \in FileNames |-> IF n \in {Join(Inc, m) : m \in S} THEN Unread ELSE Absent]
    /\ chain = [p \in ImportPaths |-> Unknown]
    /\ ioOk = {}
    /\ ioFail = {}
    /\ stack = <<>>
    /\ err = Nil
    /\ roots = <<>>
    /\ imports = <<>>
    /\ resolved = {}
    /\ ret = NoRet
    /\ run = 0
    /\ prev = NoRet
    /\ resolveCalls = Zero
    /\ creates = Zero
    /\ copies = Zero
    /\ cached = {}
    /\ shadowed = {}
    /\ failed = Nil
    /\ fsStart = {}

CombineIdle ==
    /\ cResolvers = <<>>
    /\ cIdx = 0
    /\ cInvoked = <<>>
    /\ cRet = NotReturned

Init == SyncInit /\ CombineIdle /\ RemoteIdle /\ JarIdle /\ MetaIdle /\ CloneIdle /\ LocalIdle

Next ==
    \/ SyncCall
    \/ SyncImports
    \/ SyncRoots
    \/ RRResolve
    \/ RRMkdirAll
    \/ RRCreate
    \/ RRCopy
    \/ RROpen
    \/ RIParse
    \/ RILoop
    \/ RLRLstat
    \/ RLRWalk

Spec == Init /\ [][Next]_vars

\* The specification of Combine: Sync is not running.
InitCombine == SyncInit /\ sources = <<>> /\ CombineInit /\ RemoteIdle /\ JarIdle /\ MetaIdle /\ CloneIdle /\ LocalIdle
NextCombine == CombineCall \/ CombineLoop
SpecCombine == InitCombine /\ [][NextCombine]_vars

\* The specification of Remote, and of the tests' calls of githubFetcher.
InitRemote == SyncInit /\ sources = <<>> /\ CombineIdle /\ RemoteInit /\ JarIdle /\ MetaIdle /\ CloneIdle /\ LocalIdle
NextRemote ==
    \/ RemoteCall
    \/ FetchParse
    \/ FetchChoose
    \/ GithubFetcher
    \/ BitBucketFetcher
    \/ HttpGet
    \/ FetchFallback
    \/ ClonerDirs
    \/ ClonerGitClone
    \/ ClonerOpen
    \/ FetchReturn
    \/ TestCall
    \/ TestReturn
SpecRemote == InitRemote /\ [][NextRemote]_vars

\* Every call of Sync made is run to its return.
SpecLive == Init /\ [][Next]_vars /\ WF_vars(Next)

-----------------------------------------------------------------------------
\* The specification of ArtifactoryJAR: calls of one instance, and of the
\* instances of later processes, over one cache directory.
InitJAR == SyncInit /\ sources = <<>> /\ CombineIdle /\ RemoteIdle /\ JarInit /\ MetaIdle /\ CloneIdle /\ LocalIdle
NextJAR ==
    \/ JarCall
    \/ OpenJARMetadata
    \/ OpenJARStat
    \/ OpenJARGet
    \/ OpenJARTempFile
    \/ OpenJARCopy
    \/ OpenJARRename
    \/ OpenJAROpenReader
    \/ JarLookup
    \/ JarCrash
    \/ JarRestart
SpecJAR == InitJAR /\ [][NextJAR]_vars

\* The specification of syncJARMetadata.
InitMetadata == SyncInit /\ sources = <<>> /\ CombineIdle /\ RemoteIdle /\ JarIdle /\ MetaInit /\ CloneIdle /\ LocalIdle
NextMetadata == MetadataGet \/ MetadataToken \/ MetadataDecodeElement
SpecMetadata == InitMetadata /\ [][NextMetadata]_vars


\* The specification of the clone fallback run by several processes.
InitClone == SyncInit /\ sources = <<>> /\ CombineIdle /\ RemoteIdle /\ JarIdle /\ MetaIdle /\ CloneInit /\ LocalIdle
NextClone ==
    \E p \in Procs :
        \/ ClonerStat(p)
        \/ GitClonePull(p)
        \/ GitCloneMkdirTemp(p)
        \/ GitCloneRun(p)
        \/ GitCloneRename(p)
        \/ ClonerCheckoutOpen(p)
        \/ ClonerKilled(p)
SpecClone == InitClone /\ [][NextClone]_vars


\* The specification of the Local resolver.
InitLocal == SyncInit /\ sources = <<>> /\ CombineIdle /\ RemoteIdle /\ JarIdle /\ MetaIdle /\ CloneIdle /\ LocalInit
NextLocal ==
    \/ LocalCall
    \/ LocalGlob
    \/ LocalOpen
SpecLocal == InitLocal /\ [][NextLocal]_vars


-----------------------------------------------------------------------------
\* Properties.

Succeeded == ret.st = "returned" /\ ret.err = Nil
Range(s) == {s[i] : i \in 1..Len(s)}
Explicit == Range(imports)
ImportsOf(bytes) == {Tail(bytes[i]) : i \in {j \in 1..Len(bytes) : Head(bytes[j]) = "import"}}

\* C1: within one invocation of Sync the resolver is called at most once for
\* every import path, and the destination file of a path is created and
\* written at most once, however many files import the path and however often
\* it is listed as a source.
C1_AtMostOncePerPath ==
    \A p \in ImportPaths : resolveCalls[p] <= 1 /\ creates[p] <= 1 /\ copies[p] <= 1

\* A path that is an explicit source and is imported by another fetched file
\* was met again, after one fetch and one write.
C1_Witness ==
    /\ Succeeded
    /\ \E p \in cached \cap Explicit : \E q \in resolved \ {p} :
         /\ p \in ImportsOf(chain[q].r.bytes)
         /\ resolveCalls[p] = 1 /\ creates[p] = 1 /\ copies[p] = 1

\* C2: every invocation of Sync returns, whatever the import graph (self-imports
\* and cycles included): the recursion never nests deeper than one frame per
\* import path; and when two fetched files import each other and Sync succeeds,
\* each of the two paths is listed exactly once.
Count(s, x) == Cardinality({i \in 1..Len(s) : s[i] = x})
MutualImport(p, q) ==
    /\ p # q
    /\ q \in ImportsOf(chain[p].r.bytes)
    /\ p \in ImportsOf(chain[q].r.bytes)
C2_Terminates ==
    /\ [](Len(stack) <= Cardinality(ImportPaths) + 4)
    /\ [](\A p, q \in ImportPaths :
            Succeeded /\ MutualImport(p, q) /\ resolveCalls[p] = 1 /\ shadowed = {}
            => Count(ret.synced, p) = 1 /\ Count(ret.synced, q) = 1)
    /\ ((stack # <<>>) ~> (ret.st = "returned"))

\* Two files that import each other were both fetched, and Sync returned them.
C2_Witness ==
    /\ Succeeded
    /\ \E p, q \in ImportPaths :
         MutualImport(p, q) /\ Count(ret.synced, p) = 1 /\ Count(ret.synced, q) = 1

\* C3: when the resolver answers not-found for a path Sync dispatches, Sync
\* returns the error "could not resolve <path>" and no list, and the path is
\* neither marked resolved nor written under the destination.
C3_NotFoundIsFatal ==
    \A p \in ImportPaths :
        chain[p] = NotFound /\ resolveCalls[p] > 0
        => /\ p \notin resolved
           /\ creates[p] = 0 /\ copies[p] = 0
           /\ DestFile(p) \notin fsStart => ~Exists(DestFile(p))
           /\ ret.st = "returned"
              => ret.syncedNil /\ ret.err.cause = "could not resolve" /\ ret.err.imp = p

\* Sync returned the error for an import it found by parsing a fetched file.
C3_Witness ==
    /\ ret.st = "returned"
    /\ ret.err.cause = "could not resolve"
    /\ ret.err.ctx # <<>>
    /\ resolved # {}
    /\ chain[ret.err.imp] = NotFound

\* C4 as claimed: a path that a local root holds is never dispatched to the
\* resolver, never marked resolved and never listed.
C4_Original ==
    \A p \in ImportPaths :
        IsLocal(p) => resolveCalls[p] = 0 /\ p \notin resolved /\ p \notin Range(ret.synced)

\* C4, amended: a path that is not an explicit source and that a local root
\* held when Sync was invoked is never dispatched to the resolver, never marked
\* resolved and never listed.
LocalAtStart(p) == \E i \in 1..Len(roots) : Join(roots[i], p) \in fsStart
C4_ShadowedNeverDispatched ==
    \A p \in ImportPaths \ Explicit :
        LocalAtStart(p) => resolveCalls[p] = 0 /\ p \notin resolved /\ p \notin Range(ret.synced)

\* A fetched file imported a path that a local root holds: it was passed over.
C4_Witness ==
    /\ Succeeded
    /\ \E p \in shadowed \ Explicit : \E q \in resolved :
         /\ p \in ImportsOf(chain[q].r.bytes)
         /\ LocalAtStart(p)
         /\ resolveCalls[p] = 0

\* C5: the combined resolver returns the handle of the first resolver, in
\* declared order, that returns one, when every resolver before it answered
\* not-found; no resolver after that one is invoked; and it answers not-found
\* exactly when every resolver answers not-found.
FirstAfterNotFound(i) == \A j \in 1..(i - 1) : cResolvers[j] = NotFound
Upto(i) == [k \in 1..i |-> k]
C5_FirstHandleWins ==
    cRet.st = "returned"
    => /\ \A i \in 1..Len(cResolvers) :
            cResolvers[i].r # NilHandle /\ cResolvers[i].err = Nil /\ FirstAfterNotFound(i)
            => cRet = Result(cResolvers[i].r, Nil) /\ cInvoked = Upto(i)
       /\ cRet = Result(NilHandle, Nil) <=> \A i \in 1..Len(cResolvers) : cResolvers[i] = NotFound

\* The second resolver's handle was returned, and the third, which has
\* another handle, was not invoked.
C5_Witness ==
    /\ Len(cResolvers) = 3
    /\ cResolvers[1] = NotFound
    /\ cResolvers[3].r \notin {NilHandle, cResolvers[2].r}
    /\ cRet = Result(cResolvers[2].r, Nil)
    /\ cRet.r # NilHandle
    /\ cInvoked = <<1, 2>>

\* C6: the first resolver, in declared order, that returns an error ends the
\* call: that error is returned with a nil handle and no later resolver is
\* invoked, so an error is never taken for not-found.
C6_FirstErrorAborts ==
    cRet.st = "returned"
    => \A i \in 1..Len(cResolvers) :
         cResolvers[i].err # Nil /\ FirstAfterNotFound(i)
         => cRet = Result(NilHandle, cResolvers[i].err) /\ cInvoked = Upto(i)

\* The second resolver's error was returned although the third has the file.
C6_Witness ==
    /\ Len(cResolvers) = 3
    /\ cResolvers[1] = NotFound
    /\ cResolvers[2].err # Nil
    /\ cResolvers[3].r # NilHandle
    /\ cRet = Result(NilHandle, cResolvers[2].err)
    /\ cInvoked = <<1, 2>>

\* The paths Sync has to fetch. The walk of a local root parses every .proto
\* file the root held when Sync was invoked; every fetched file is parsed; an
\* import that a local root held when Sync was invoked is passed over.
LocalProtos ==
    {Join(roots[i], n) : i \in 1..Len(roots), n \in {m \in LocalNames : IsImport(m)}}
        \cap fsStart
LocalSeeds == UNION {ImportsOf(fs[f].bytes) : f \in LocalProtos}
RECURSIVE Closure(_)
Closure(S) ==
    LET T == S \cup {q \in UNION {ImportsOf(chain[p].r.bytes) : p \in S} : ~LocalAtStart(q)}
    IN IF T = S THEN S ELSE Closure(T)
Reach == Closure(Explicit \cup {q \in LocalSeeds : ~LocalAtStart(q)})

\* C7 as claimed: the list has no duplicates, it holds exactly the reachable
\* paths that no local root satisfies, the resolved map has as many entries,
\* and no listed path lives under a local root.
C7_Original ==
    Succeeded
    => /\ Injective(ret.synced)
       /\ Range(ret.synced) = Closure({q \in Explicit \cup LocalSeeds : ~LocalAtStart(q)})
       /\ Cardinality(resolved) = Cardinality(Range(ret.synced))
       /\ \A p \in Range(ret.synced) : ~LocalAtStart(p)

\* C7, amended: the list has no duplicates and holds exactly the explicit
\* sources, the imports of the local .proto files and the imports of every
\* fetched file, imports that a local root held being passed over; the
\* resolved map has as many entries; a listed path that lives under a local
\* root is an explicit source.
C7_ListIsClosure ==
    Succeeded
    => /\ Injective(ret.synced)
       /\ Range(ret.synced) = Reach
       /\ Cardinality(resolved) = Cardinality(Reach)
       /\ \A p \in Range(ret.synced) : LocalAtStart(p) => p \in Explicit

\* A local file's import was fetched and brought a second file with it, while
\* an import that the local root holds was passed over.
C7_Witness ==
    /\ Succeeded
    /\ Explicit = {}
    /\ Cardinality(Range(ret.synced)) = 2
    /\ \E p \in LocalSeeds \cap Range(ret.synced) :
         ImportsOf(chain[p].r.bytes) \cap (Range(ret.synced) \ {p}) # {}
    /\ shadowed # {}

-----------------------------------------------------------------------------
\* C8 as claimed: a second invocation with the same resolver, sources and
\* destination succeeds and returns the set the first one returned.
C8_Original ==
    run = 2 /\ ret.st = "returned"
    => ret.err = Nil /\ ~ret.syncedNil /\ Range(ret.synced) = Range(prev.synced)

\* C8, amended: the same, when the destination is not among the local roots.
C8_Idempotent ==
    run = 2 /\ ret.st = "returned" /\ Dest \notin Range(roots)
    => ret.err = Nil /\ ~ret.syncedNil /\ Range(ret.synced) = Range(prev.synced)

\* The second invocation fetched again, over the files of the first, a file
\* and the file it imports.
C8_Witness ==
    /\ run = 2 /\ Succeeded
    /\ Dest \notin Range(roots)
    /\ Cardinality(Range(ret.synced)) = 2
    /\ Range(prev.synced) = Range(ret.synced)
    /\ \A p \in Range(ret.synced) : DestFile(p) \in fsStart /\ copies[p] = 1

\* C9: when Sync succeeds, every listed path has a file under the destination,
\* in a directory MkdirAll made, holding exactly the bytes of the handle the
\* resolver returned for the path.
C9_ExactCopy ==
    Succeeded
    => \A p \in Range(ret.synced) :
         /\ chain[p].r # NilHandle
         /\ <<"mkdir", p>> \in ioOk
         /\ fs[DestFile(p)] = File(chain[p].r.bytes)

\* Two files with different bytes were fetched and written.
C9_Witness ==
    /\ Succeeded
    /\ \E p, q \in Range(ret.synced) :
         /\ chain[p].r.bytes # chain[q].r.bytes
         /\ fs[DestFile(p)] = File(chain[p].r.bytes)
         /\ fs[DestFile(q)] = File(chain[q].r.bytes)
         /\ Len(chain[p].r.bytes) > 2

\* C10: after the first failure of an invocation the resolver is not called
\* and nothing is created or written any more (what was written stays), and
\* Sync returns that failure, with no list; Sync returns no error when nothing
\* failed.
C10_StopsAtFirstFailure ==
    /\ [][failed # Nil => UNCHANGED <<resolveCalls, creates, copies, fs>>]_vars
    /\ [](ret.st = "returned" /\ failed # Nil
          => /\ ret.syncedNil /\ ret.synced = <<>>
             /\ ret.err # Nil
             /\ ret.err.cause = failed.cause /\ ret.err.imp = failed.imp)
    /\ [](ret.st = "returned" /\ failed = Nil => ret.err = Nil /\ ~ret.syncedNil)

\* Sync returned the failure of an import's fetch, and the file that imports
\* it, written before, is still under the destination.
C10_Witness ==
    /\ ret.st = "returned" /\ ret.err # Nil /\ ret.syncedNil
    /\ ret.err.ctx # <<>>
    /\ \E p \in resolved :
         /\ p # ret.err.imp
         /\ ret.err.imp \in ImportsOf(chain[p].r.bytes)
         /\ DestFile(p) \notin fsStart
         /\ fs[DestFile(p)] = File(chain[p].r.bytes)

-----------------------------------------------------------------------------
\* C11: a file under the destination that this invocation created, and that
\* is not being copied right now, holds the complete bytes of the handle the
\* resolver returned for its path: never a part of them.
BeingCopied(p) == Running("recursiveResolve", "copy") /\ Top.arg = p
C11_NoPartialFile ==
    \A p \in ImportPaths :
        creates[p] > 0 /\ Exists(DestFile(p)) /\ ~BeingCopied(p)
        => fs[DestFile(p)] = File(chain[p].r.bytes)

-----------------------------------------------------------------------------
\* Properties of Remote.

FirstMatching ==
    IF \E i \in 1..Len(rRepos) : Matches(rRepos[i], rPath)
    THEN CHOOSE i \in 1..Len(rRepos) :
            Matches(rRepos[i], rPath) /\ \A j \in 1..(i - 1) : ~Matches(rRepos[j], rPath)
    ELSE 0
RemoteCalled == ~rDirect /\ rPc # "idle"
RemoteDone == ~rDirect /\ rPc = "done"

\* C12: the descriptor Remote uses for a path is the first, in declared
\* order, that matches it by prefix or by its list of files; no URL of another
\* descriptor is parsed, requested or cloned, also when the fetch fails; when
\* no descriptor matches, the answer is not-found and nothing was parsed,
\* requested or cloned.
C12_FirstMatchWins ==
    RemoteCalled
    => /\ rRepo = FirstMatching
       /\ rUsed \subseteq {FirstMatching} \ {0}
       /\ \A i \in 1..Len(rParsed) : rParsed[i] = rRepos[FirstMatching].URL
       /\ FirstMatching = 0
          => /\ rPc = "done" /\ rRet = Result(NilHandle, Nil)
             /\ rParsed = <<>> /\ rHttp = <<>> /\ rClones = <<>>

\* The fetch from the first of two matching descriptors failed, and the
\* second, with another URL, was left alone.
C12_Witness ==
    /\ RemoteDone
    /\ Len(rRepos) = 2
    /\ Matches(rRepos[1], rPath) /\ Matches(rRepos[2], rPath)
    /\ rRepos[1].URL # rRepos[2].URL
    /\ URLParse(rRepos[2].URL).ok
    /\ rRet.err # Nil
    /\ rUsed = {1}

\* errors.Is(fetchErr, errNotFound), read off the error the fetcher returned.
FetcherSaidNotFound == rFetched.err # Nil /\ rFetched.err.cause = errNotFound.cause

\* C13: cloner is called at most once in a call of the resolver, and exactly
\* when the fetcher returned the not-found error; no request is repeated; an
\* HTTP failure, a malformed repository path and an unsupported host end the
\* call with an error and without a clone; a clone that succeeds makes the call
\* return the cloned file's handle and no error.
C13_CloneOnlyOnNotFound ==
    /\ RemoteCalled => Len(rClones) <= 1 /\ Len(rHttp) <= 1 /\ Len(rParsed) <= 1
    /\ RemoteCalled /\ rClones # <<>> => FetcherSaidNotFound
    /\ RemoteDone /\ FetcherSaidNotFound => Len(rClones) = 1
    /\ RemoteDone /\ rFetched.err # Nil /\ ~FetcherSaidNotFound
       => rClones = <<>> /\ rRet.r = NilHandle /\ rRet.err # Nil
    /\ RemoteDone /\ rRepo # 0 /\ chooseFetcher(URLParse(theRepo.URL).u) = "unsupported"
       => rClones = <<>> /\ rHttp = <<>> /\ rRet.err # Nil
    /\ RemoteDone /\ rClones # <<>> /\ rErr = Nil
       => rRet = Result(rR, Nil) /\ rR # NilHandle /\ rR.name = rClones[1] \o <<" + ">> \o relPath

\* The server answered 404, the clone succeeded, and its file was returned.
C13_Witness ==
    /\ RemoteDone
    /\ rResp.status = 404
    /\ Len(rHttp) = 1 /\ Len(rClones) = 1
    /\ rRet.err = Nil /\ rRet.r # NilHandle

C15_CallerURLUnchanged ==
    rDirect /\ rPc = "done" /\ rRepos[1].URL = SshURL /\ rResp.status = 404
    => /\ IsNotFound(rRet.err) /\ rRet.r = NilHandle
       /\ rU.Scheme # "https"
       /\ URLString(rU) = SshURL

\* C16: Repo.ParseURL takes user@host:org/repo.git and yields scheme ssh, the
\* host, the user, and the path org/repo.git with no leading slash.
IsShorthand(s) == Len(s) >= 5 /\ s[2] = "@" /\ s[4] = ":"
C17_NotFoundForEveryForm ==
    rDirect /\ rPc = "done" /\ rRepos[1].URL \in {ShortURL, OtherHostURL, SshURL}
        /\ (rHttp = <<>> \/ rResp.status = 404)
    => IsNotFound(rRet.err) /\ rRet.r = NilHandle

-----------------------------------------------------------------------------
\* Properties of ArtifactoryJAR.

Times(x, s) == Cardinality({i \in 1..Len(s) : s[i] = x})

\* C18 as stated: an instance makes at most one metadata request, at most one
\* download request, and opens the archive at most once.
C18_Original ==
    jProbes <= 1 /\ jDownloads <= 1 /\ jOpens <= 1

\* C18: in one call the metadata request, the download request and the open
\* are each made at most once; once the instance holds the open archive it keeps
\* it, makes no request and opens nothing again; and a call of such an instance
\* answers from that archive: a handle named after it for a path that is among
\* its entries, not-found otherwise.
C18_OneShot ==
    /\ [](/\ Times("probe", jSteps) <= 1
          /\ Times("download", jSteps) <= 1
          /\ Times("open", jSteps) <= 1
          /\ jZip # NoZip /\ jPc = "idle" /\ jRet.err = Nil
             => IF \E i \in 1..Len(jZip.File) : jZip.File[i].Name = jArg
                THEN ~jRet.r.isNil /\ jRet.r.name = jPath \o <<"#">> \o jArg
                ELSE jRet.r = NilHandle)
    /\ [][jZip # NoZip /\ jPc # "crashed"
          => /\ jZip' = jZip /\ jPath' = jPath
             /\ jProbes' = jProbes /\ jDownloads' = jDownloads /\ jOpens' = jOpens
             /\ jCache' = jCache /\ jTemps' = jTemps]_vars

\* The third call of an instance was answered with a handle and without a
\* request or an open, after a call that had failed with its metadata request
\* and a call that opened the archive.
C18_Witness ==
    /\ jCalls = 3 /\ jPc = "idle"
    /\ jProbes = 2 /\ jOpens = 1
    /\ jSteps = <<>>
    /\ jRet.r # NilHandle

\* C19 as stated: in a call in which os.Stat found the file of the cache, no
\* request is made.
C19_Original ==
    jHit => Times("probe", jSteps) = 0 /\ Times("download", jSteps) = 0

\* C19: in a call in which os.Stat found the file of the cache, no download
\* request is made and no temporary file is written; with a pinned version no
\* request at all is made, and with none the one metadata request that found
\* the version is the only one; the archive opened is that file as it is.
C19_CacheTrusted ==
    jHit
    => /\ Times("download", jSteps) = 0
       /\ jResp = NoResponse
       /\ Times("probe", jSteps) = IF jVersion = Unpinned THEN 1 ELSE 0
       /\ jZip # NoZip => jZip = ZipReadCloser(jCache[jVer].bytes) /\ jPath = JarDest(jVer)

\* The version was not pinned, the metadata named one whose file the cache
\* held, and the archive was opened from it.
C19_Witness ==
    /\ jHit
    /\ jVersion = Unpinned
    /\ jSteps = <<"probe", "open">>
    /\ jZip # NoZip

\* C20: the file <artifact>-<version>.jar of the cache is absent or holds the
\* whole body of a response; it changes only by the rename of a temporary file
\* that holds the whole body of the response to this call's download request.
IsProperPrefix(s, t) == Len(s) < Len(t) /\ s = SubSeq(t, 1, Len(s))
C20_CacheFileWhole ==
    /\ [](\A v \in Versions : jCache[v] = Absent \/ (jCache[v].st = "file" /\ jCache[v].bytes \in JarBodies))
    /\ [][jCache' # jCache
          => /\ jPc = "rename"
             /\ TheTemp = File(jResp.body)
             /\ jCache' = [jCache EXCEPT ![jVer] = File(jResp.body)]]_vars

\* The process died while the body was being copied: the temporary file holds
\* a part of it and the cache has no file of that version.
C20_Witness ==
    /\ jPc = "crashed"
    /\ jTemps # <<>>
    /\ TheTemp.bytes # <<>>
    /\ IsProperPrefix(TheTemp.bytes, jResp.body)
    /\ jCache[jVer] = Absent

-----------------------------------------------------------------------------
\* Properties of syncJARMetadata.

\* The position of the first start tag of <latest> (0: there is none), and
\* whether the first n tokens parse.
FirstLatest(s) ==
    IF \E i \in 1..Len(s) : s[i] = StartElement("latest")
    THEN CHOOSE i \in 1..Len(s) :
            s[i] = StartElement("latest") /\ \A j \in 1..(i - 1) : s[j] # StartElement("latest")
    ELSE 0
RECURSIVE Reads(_, _)
Reads(s, n) ==
    IF n = 0 THEN [ok |-> TRUE, open |-> <<>>]
    ELSE LET r == Reads(s, n - 1)
             d == Token(s, n - 1, r.open) IN
         IF r.ok /\ d.err = Nil THEN [ok |-> TRUE, open |-> d.open]
         ELSE [ok |-> FALSE, open |-> <<>>]
MetadataAnswered == mPc = "done" /\ mRet.err.cause # "http.Get"

\* C21: when the document parses up to its first <latest> and that element
\* holds character data and is closed, syncJARMetadata returns that data and no
\* error, and has read no token after the end tag, whatever follows it; when
\* the document has no <latest>, or does not parse up to the first one, it
\* returns an error and the empty version; and it never returns without an
\* error having read past the end tag of the first <latest>.
C21_FirstLatestOnly ==
    MetadataAnswered
    => LET i == FirstLatest(mStream) IN
       /\ i = 0 \/ ~Reads(mStream, i).ok
          => mRet.err # Nil /\ mRet.version = NoVersion
       /\ \A j \in (i + 1)..Len(mStream) :
             /\ i # 0 /\ Reads(mStream, i).ok
             /\ mStream[j] = EndElement("latest")
             /\ \A k \in (i + 1)..(j - 1) : mStream[k].kind = "chardata"
             => /\ mRet = Probed([k \in 1..(j - i - 1) |-> mStream[i + k].name], Nil)
                /\ mPos = j
       /\ mRet.err = Nil
          => i # 0 /\ mPos > i /\ mStream[mPos] = EndElement("latest")

\* After an element that is closed before it, <latest>1.0</latest> was read and
\* returned, and the text after it, which is not XML, was not looked at.
C21_Witness ==
    /\ MetadataAnswered
    /\ mStream = <<StartElement("metadata"), EndElement("metadata"), StartElement("latest"),
                   CharData("1.0"), EndElement("latest"), Malformed>>
    /\ mRet = Probed(<<"1.0">>, Nil)
    /\ mPos = 5

-----------------------------------------------------------------------------
\* Properties of the lookup in the open archive.

Looked == jZip # NoZip /\ jPc = "idle" /\ jRet.st = "returned"
EntriesNamed(path) == {i \in 1..Len(jZip.File) : jZip.File[i].Name = path}

\* C22: a call of an instance that holds the open archive returns a handle
\* only for a path that is, letter for letter, the name of an entry, and the
\* handle is that of the first such entry, named <archive>#<path>; for such a
\* path the only other answer is the error of opening the entry; for a path
\* that is no entry's name it returns (nil, nil).
C22_ExactEntry ==
    Looked
    => /\ EntriesNamed(jArg) = {} => jRet = Result(NilHandle, Nil)
       /\ EntriesNamed(jArg) # {}
          => LET first == CHOOSE i \in EntriesNamed(jArg) : \A j \in EntriesNamed(jArg) : i <= j IN
             \/ jRet = Result(NamedHandle(jPath \o <<"#">> \o jArg, jZip.File[first].data), Nil)
             \/ jRet.r = NilHandle /\ jRet.err.cause = "file.Open"

\* b.proto was asked of an archive that holds B.proto, and was not found.
C22_Witness ==
    /\ Looked
    /\ \E i \in 1..Len(jZip.File) : jZip.File[i].Name = <<"B", ".proto">>
    /\ jArg = <<"b", ".proto">>
    /\ jRet = Result(NilHandle, Nil)

-----------------------------------------------------------------------------
\* Properties of the clone cache.

\* C23: the directory at the canonical path is absent or a whole clone; it
\* comes into being only by the rename of a temporary directory that holds a
\* whole clone, so a clone that failed or was killed leaves it as it was; a
\* process that found .git there pulls and makes no temporary directory, and a
\* process that found none does not pull.
C23_NoPartialClone ==
    /\ [](/\ gDest \in {NoDir, Dir(FullClone)}
          /\ \A p \in Procs :
                /\ gSaw[p] = "git"
                   => gTmp[p] = NoDir /\ gPc[p] \in {"pull", "checkout", "done", "killed"}
                /\ gSaw[p] = "no git" => gPc[p] # "pull")
    /\ [][gDest' # gDest
          => \E p \in Procs :
                /\ gPc[p] = "rename"
                /\ gTmp[p] = Dir(FullClone)
                /\ gDest = NoDir /\ gDest' = Dir(FullClone)]_vars

\* A process was killed while git was cloning: its temporary directory holds a
\* part of the clone, and there is nothing at the canonical path.
C23_Witness ==
    \E p \in Procs :
        /\ gPc[p] = "killed"
        /\ gTmp[p].st = "dir"
        /\ gTmp[p].parts = <<".git", "objects">>
        /\ gDest = NoDir

\* C26: of processes that start with no clone in the cache, none returns an
\* error that the other's clone caused, and when all have returned without
\* error the canonical path holds a whole clone.
C26_ConcurrentClonesSafe ==
    gStart = NoDir
    => /\ \A p \in Procs : gErr[p].cause # "rename: directory not empty"
       /\ (\A p \in Procs : gPc[p] = "done" /\ gErr[p] = Nil) => gDest = Dir(FullClone)

-----------------------------------------------------------------------------
\* Properties of the order of Sync's work.

\* Sync is in its first loop (over imports), or in its second (over roots).
InPhase(at) == stack # <<>> /\ stack[1].fn = "Sync" /\ stack[1].at = at
\* recursiveResolve(p) has marked p and has not returned yet: it is about to
\* write the destination file, or is in the resolveImports it ends with (a
\* resolveImports called by the walk of a root is not one of these).
InProgress(p) ==
    \E k \in 1..Len(stack) :
        \/ stack[k].fn = "recursiveResolve" /\ stack[k].arg = p /\ stack[k].at # "resolve"
        \/ /\ stack[k].fn = "resolveImports" /\ stack[k].arg = DestFile(p)
           /\ k > 1 /\ stack[k - 1].fn # "resolveLocalRoot"

\* C24: the sources that end in .proto are the imports and all others the
\* roots, wherever they stand among the sources; while Sync is in its loop over
\* the imports no root is walked, and an import of a fetched file that any of
\* the roots holds is not fetched; when that loop has ended, the imports and
\* everything they reach have been resolved, and nothing else has.
C24_ImportsBeforeRoots ==
    run > 0
    => /\ Range(imports) = {src \in Range(sources) : HasSuffix(src, <<".proto">>)}
       /\ Range(roots) = {src \in Range(sources) : ~HasSuffix(src, <<".proto">>)}
       /\ Len(imports) + Len(roots) = Len(sources)
       /\ InPhase("imports")
          => /\ \A k \in 1..Len(stack) : stack[k].fn # "resolveLocalRoot"
             /\ \A p \in ImportPaths \ Explicit : LocalAtStart(p) => p \notin resolved
             /\ resolved \subseteq Closure(Explicit)
       /\ InPhase("roots") => Closure(Explicit) \subseteq resolved
       /\ stack = <<SyncFrame("roots", 1)>> /\ err = Nil => resolved = Closure(Explicit)

\* A root stands before an import among the sources; the import and a file it
\* imports have been resolved, an import that the root holds has been passed
\* over, and the walk of the root has not begun.
C24_Witness ==
    /\ Len(sources) = 2
    /\ ~HasSuffix(sources[1], <<".proto">>) /\ HasSuffix(sources[2], <<".proto">>)
    /\ stack = <<SyncFrame("roots", 1)>> /\ err = Nil
    /\ Cardinality(resolved) = 2
    /\ shadowed # {}

\* C25: a path is marked resolved only when the resolver has returned a handle
\* for it, and it is marked before its destination file is created and before
\* its imports are parsed; a path that is met again while it is being worked
\* on has been dispatched to the resolver once and is not dispatched again.
C25_MarkedBeforeWrite ==
    \A p \in ImportPaths :
        /\ p \in resolved
           => /\ chain[p].err = Nil /\ ~chain[p].r.isNil
              /\ resolveCalls[p] = 1
        /\ creates[p] > 0 \/ copies[p] > 0 => p \in resolved
        /\ InProgress(p) => p \in resolved /\ resolveCalls[p] = 1

\* A fetched file imports itself: while its imports were being parsed it was
\* met again, found marked, and not dispatched a second time.
C25_Witness ==
    \E p \in ImportPaths :
        /\ p \in ImportsOf(chain[p].r.bytes)
        /\ InProgress(p)
        /\ p \in cached
        /\ resolveCalls[p] = 1

-----------------------------------------------------------------------------
\* Properties of the choice of transport and of the HTTP fetch.

\* The host of the matched descriptor's URL, as url.Parse reads it.
ConfiguredHost == URLParse(theRepo.URL).u.Host
Chosen == ~rDirect /\ rRepo # 0 /\ URLParse(theRepo.URL).ok /\ rPc \notin {"idle", "parse", "choose"}
Unsupported(res) == res.r.isNil /\ res.err.cause = "unsupported repository source"

\* C27: a descriptor on github.com is fetched by the GitHub transport, also
\* when github.com is among the configured Bitbucket servers; a descriptor on
\* another configured server is fetched by the self-hosted transport; for any
\* other host the call returns the error "unsupported repository source" and
\* has made no HTTP request and no clone.
C27_TransportByHost ==
    Chosen
    => IF ConfiguredHost = <<"github.com">>
       THEN /\ rPc # "bitbucket" /\ ~Unsupported(rRet)
            /\ rHttp # <<>> => SubSeq(rHttp[1], 1, 3) = <<"https", "://", "raw.githubusercontent.com">>
       ELSE IF \E i \in 1..Len(BitbucketServers) : BitbucketServers[i] = ConfiguredHost
       THEN /\ rPc # "github" /\ ~Unsupported(rRet)
            /\ rHttp # <<>> => SubSeq(rHttp[1], 1, 2) \o ConfiguredHost = SubSeq(rHttp[1], 1, 3)
       ELSE /\ rPc = "done" /\ Unsupported(rRet)
            /\ rHttp = <<>> /\ rClones = <<>>

\* A descriptor on a host that is neither github.com nor configured was
\* matched, and the call has returned.
C27_Witness ==
    /\ Chosen /\ rPc = "done"
    /\ ConfiguredHost = <<"gitlab.com">>
    /\ Unsupported(rRet)
    /\ rHttp = <<>> /\ rClones = <<>>

\* C28: a response with a status outside 200..299, and a response of any
\* status with a content type that starts with text/html, give a nil handle
\* and the not-found error; any other response gives a handle that bears the
\* request URL as its name; a request that fails gives an error that is not
\* the not-found error.
C28_HttpGetOutcomes ==
    rHttp # <<>> /\ rPc # "http"
    => IF rResp = NoResponse
       THEN rFetched.r.isNil /\ rFetched.err # Nil /\ rFetched.err.cause # "not found"
       ELSE IF rResp.status \notin 200..299 \/ rResp.ctype[1] = "text/html"
       THEN rFetched.r.isNil /\ rFetched.err.cause = "not found"
       ELSE /\ rFetched.err = Nil
            /\ ~rFetched.r.isNil /\ rFetched.r.name = rHttp[1] /\ rFetched.r.bytes = rResp.body

\* The server answered 200 with an HTML page, and the fetch said not found.
C28_Witness ==
    /\ rHttp # <<>> /\ rPc = "fetched"
    /\ rResp # NoResponse /\ rResp.status = 200 /\ rResp.ctype[1] = "text/html"
    /\ rFetched.r.isNil /\ rFetched.err.cause = "not found"

\* C30: the URL the clone fallback clones from, and hashes for the name of the
\* cache directory, is the URL of the descriptor as it was configured.
C30_ClonesConfiguredURL ==
    ~rDirect /\ rClones # <<>> => rClones[1] = theRepo.URL

-----------------------------------------------------------------------------
\* Properties of the Local resolver.

\* The directories Local is to look into, in the order of the patterns and,
\* within a pattern, of the directory names; the list ends at a malformed
\* pattern.
RECURSIVE Candidates(_)
Candidates(i) ==
    IF i > Len(lIncludes) \/ lIncludes[i] = PatBad THEN <<>>
    ELSE SelectSeq(Matching(lIncludes[i]), LAMBDA d : lFs[d] # "nodir") \o Candidates(i + 1)
BadPattern == \E i \in 1..Len(lIncludes) : lIncludes[i] = PatBad
\* The first candidate where os.Open meets something else than "does not
\* exist" (0: none).
FirstHit(c) ==
    IF \A n \in 1..Len(c) : lFs[c[n]] = "absent" THEN 0
    ELSE CHOOSE n \in 1..Len(c) :
            /\ lFs[c[n]] # "absent"
            /\ \A m \in 1..(n - 1) : lFs[c[m]] = "absent"

-----------------------------------------------------------------------------
\* Properties of what the archive cache is given and of a failed initialization.

\* This call has renamed the body of a response to the canonical name.
Installed == jPc = "open" /\ jResp.status # 0

\* C31: a file is renamed to the canonical name of the archive only when the
\* response of the download had a status in 200..299.
C31_InstalledOnlyOn2xx ==
    Installed => jResp.status \in 200..299

\* The errors openJAR returns.
InitCauses ==
    {"UserCacheDir", "http.Get", "xml", "could not find latest version", "http.NewRequest",
     "http.Do", "TempFile", "io.Copy", "os.Rename", "zip.OpenReader"}
JarReturned == jPc = "idle" /\ jRet.st = "returned"

\* C32: a call whose initialization failed returns the error and a nil handle
\* and leaves the instance without an archive; a call on an instance without
\* an archive never goes on to the entries before it has initialized, and an
\* initialization runs from its first step, the metadata request of an
\* unpinned instance, to the opening of the archive.
C32_FailedInitRetried ==
    /\ JarReturned /\ jRet.err.cause \in InitCauses => jRet.r.isNil /\ jZip = NoZip
    /\ JarReturned /\ jZip = NoZip => jRet.r.isNil /\ jRet.err.cause \in InitCauses
    /\ jPc = "lookup" => jZip # NoZip
    /\ jPc = "lookup" /\ jSteps # <<>>
       => /\ jSteps[Len(jSteps)] = "open"
          /\ jVersion = Unpinned => jSteps[1] = "probe"

\* The second call of an instance made the second download request of the
\* instance, the first having failed, and was answered with a handle.
C32_Witness ==
    /\ jCalls = 2 /\ JarReturned
    /\ jDownloads = 2
    /\ Times("download", jSteps) = 1
    /\ jZip # NoZip /\ ~jRet.r.isNil /\ jRet.err = Nil

\* The descriptors without prefix and without list of files.
Empty(r) == r.Prefix = <<>> /\ r.Protos = <<>>
Listed(r, path) == \E k \in 1..Len(r.Protos) : r.Protos[k] = path

\* C33: a descriptor without prefix is selected for a path only when its list
\* of files holds the path; a descriptor with neither prefix nor list is never
\* selected, and the descriptor selected is the same as if it were not there.
C33_EmptyPrefixMatchesNothing ==
    RemoteCalled
    => /\ rRepo # 0 /\ theRepo.Prefix = <<>> => Listed(theRepo, rPath)
       /\ rRepo # 0 => ~Empty(theRepo)
       /\ \A i \in 1..Len(rRepos) :
             Empty(rRepos[i])
             => \A j \in (i + 1)..Len(rRepos) :
                   /\ \/ rRepos[j].Prefix # <<>> /\ HasPrefix(rPath, rRepos[j].Prefix)
                      \/ Listed(rRepos[j], rPath)
                   => rRepo # 0 /\ rRepo <= j

\* The first descriptor has neither prefix nor list, the second matches the
\* path by its prefix, and the second was selected.
C33_Witness ==
    /\ RemoteCalled
    /\ Len(rRepos) = 2
    /\ Empty(rRepos[1])
    /\ rRepos[2].Prefix # <<>> /\ HasPrefix(rPath, rRepos[2].Prefix)
    /\ rRepo = 2

====
